---- MODULE Spec2Model ----
(***************************************************************************)
(* Verification model of the attention-mechanism grading pipeline:         *)
(*   - NotebookExecutor   (src/notebook_executor.py)  : SpecExec           *)
(*   - LLMEvaluator       (src/llm_integration.py)    : SpecLLM            *)
(*   - grade_notebook     (src/evaluation.py)         : SpecGrade          *)
(*   - find_function_cell, validate_context        : SpecTools          *)
(*   - RateLimiter, explain_concept                : SpecRate           *)
(*   - single operations (constructor, parsers)    : SpecUnit           *)
(*   - run_notebook_evaluation attempt numbers     : SpecAttempts       *)
(*   - compare_code step by step (termination)     : SpecTerm           *)
(***************************************************************************)
EXTENDS Integers, Sequences, FiniteSets, TLC

VARIABLES
    \* ---- NotebookExecutor ----
    notebook_data,     \* the notebook document: sequence of raw cells
    cells,             \* self.cells: the extracted code cells
    execution_cache,   \* self.execution_cache: target -> cached namespace
    calls,             \* history: one record per finished execute_cells_until call
    \* ---- LLMEvaluator ----
    config,            \* self.config: the loaded configuration (immutable)
    now,               \* the wall clock, in seconds
    requests,          \* rate_limiter.requests: timestamps of recorded calls
    cache_files,       \* the files of the response cache: key -> [timestamp, data]
    ncompare,          \* number of compare_code calls made so far
    pre_cache,         \* cache_files as they were when the last call started
    last,              \* observation of the last compare_code call
    passed,            \* history: one record per finished wait_if_needed call
    \* ---- grade_notebook ----
    g_notebook,        \* the notebook file at notebook_path
    judge,             \* per function: how the compare_code call for it ends
    tensor,            \* per function: what the student's notebook does in its test
    pc,                \* position of grade_notebook
    implementations,   \* student_implementations
    sec_i,             \* index of the next section of the loop
    section_results,   \* section_results, in insertion order
    overall_scores,    \* overall_scores
    judge_calls,       \* functions for which evaluate_cell_implementation ran
    report,            \* the value grade_notebook returned
    \* ---- find_function_cell / validate_context_for_function ----
    loc_cells,         \* self.cells: the code cells, each source as its lines
    loc_calls,         \* history: one record per find_function_cell call
    val_last,          \* observation of the last validate_context_for_function
    \* ---- single operations, attempt numbering, compare_code in steps ----
    unit,              \* observation of the last single operation
    grade_dirs,        \* the entries of the directory grade/
    runs,              \* history: one record per run_notebook_evaluation run
    cc                 \* the compare_code call in progress, step by step

execVars == <<notebook_data, cells, execution_cache, calls>>
llmVars == <<config, now, requests, cache_files, ncompare, pre_cache, last,
             passed>>
gradeVars == <<g_notebook, judge, tensor, pc, implementations, sec_i,
               section_results, overall_scores, judge_calls, report>>

toolVars == <<loc_cells, loc_calls, val_last>>

opVars == <<unit, grade_dirs, runs, cc>>

vars == <<notebook_data, cells, execution_cache, calls,
          config, now, requests, cache_files, ncompare, pre_cache, last,
          passed,
          g_notebook, judge, tensor, pc, implementations, sec_i,
          section_results, overall_scores, judge_calls, report,
          loc_cells, loc_calls, val_last,
          unit, grade_dirs, runs, cc>>

(***************************************************************************)
(* Bounds                                                                  *)
(***************************************************************************)
NumCells == 3      \* raw cells per notebook document
MaxCalls == 2      \* execute_cells_until calls made on one executor

(***************************************************************************)
(* Values and namespaces.  A namespace maps every name to the value bound  *)
(* to it, or to Missing when the name is not a key of the dict.            *)
(***************************************************************************)
Missing == -1                     \* the name is not a key of the dict
Module == 0                       \* a module object (torch, nn, F, np, math)
Names == {"torch", "x", "y"}

\* One statement of a cell.  bind: NAME = val; del: del NAME;
\* mutate: NAME.append(..) (changes the object in place); raise: raise
\* ValueError(..); exit: sys.exit() (raises SystemExit, a BaseException).
Stmt(o, n, v) == [op |-> o, name |-> n, val |-> v]

\* A raw notebook cell: its cell_type and the relevant facts of its source.
\*   blank      : source.strip() is empty
\*   first      : first character of the stripped source ("!", "%" or other)
\*   evalImport : 'from src.evaluation import' occurs in the source
\*   ops        : the statements the source executes, in order
RawCell(ct, b, f, e, ops) ==
    [cell_type |-> ct, blank |-> b, first |-> f, evalImport |-> e, ops |-> ops]

MarkdownCell == RawCell("markdown", FALSE, "#", FALSE, <<>>)
BlankCell    == RawCell("code", TRUE, "", FALSE, <<>>)
MagicCell    == RawCell("code", FALSE, "%", FALSE, <<Stmt("bind", "y", 30)>>)
EvalImportCell == RawCell("code", FALSE, "f", TRUE, <<Stmt("bind", "y", 40)>>)
Code(ops)    == RawCell("code", FALSE, "c", FALSE, ops)

RawCells ==
    { MarkdownCell, BlankCell, MagicCell, EvalImportCell,
      Code(<<Stmt("bind", "x", 10)>>),
      Code(<<Stmt("del", "x", 0)>>),
      Code(<<Stmt("bind", "y", 10), Stmt("raise", "", 0)>>),
      Code(<<Stmt("mutate", "x", 0), Stmt("raise", "", 0)>>),
      Code(<<Stmt("exit", "", 0)>>) }

Notebooks == [1..NumCells -> RawCells]

(***************************************************************************)
(* NotebookExecutor._extract_code_cells                                    *)
(***************************************************************************)
RECURSIVE ExtractFrom(_, _, _)
ExtractFrom(nb, idx, acc) ==
    IF idx > Len(nb) THEN acc
    ELSE IF nb[idx].cell_type = "code"
         THEN ExtractFrom(nb, idx + 1,
                  Append(acc, [index |-> idx - 1,
                               source |-> nb[idx],
                               original_index |-> Len(acc)]))
         ELSE ExtractFrom(nb, idx + 1, acc)

ExtractCodeCells(nb) == ExtractFrom(nb, 1, <<>>)

(***************************************************************************)
(* NotebookExecutor._initialize_context                                    *)
(***************************************************************************)
InitializeContext == [n \in Names |-> IF n = "torch" THEN Module ELSE Missing]

(***************************************************************************)
(* exec(cell_code, local_context): the statements run against              *)
(* local_context, a shallow copy of context.  Both dicts hold the same     *)
(* objects until a name is rebound in local_context, so an in-place        *)
(* mutation through a name that was not rebound also changes the object    *)
(* that context refers to.                                                 *)
(***************************************************************************)
ExecStmt(o, st) ==
    CASE o.op = "bind" ->
           [st EXCEPT !.local[o.name] = o.val,
                      !.rebound = @ \cup {o.name}]
      [] o.op = "del" ->
           IF st.local[o.name] = Missing
           THEN [st EXCEPT !.err = "Exception"]          \* NameError
           ELSE [st EXCEPT !.local[o.name] = Missing,
                           !.rebound = @ \cup {o.name}]
      [] o.op = "mutate" ->
           IF st.local[o.name] = Missing
           THEN [st EXCEPT !.err = "Exception"]          \* NameError
           ELSE LET v  == st.local[o.name]
                    nv == IF v = Module THEN Module ELSE v + 1
                IN [st EXCEPT !.local[o.name] = nv,
                              !.ctx[o.name] =
                                  IF o.name \in st.rebound THEN @ ELSE nv]
      [] o.op = "raise" -> [st EXCEPT !.err = "Exception"]
      [] o.op = "exit"  -> [st EXCEPT !.err = "BaseException"]

RECURSIVE RunOps(_, _)
RunOps(ops, st) ==
    IF ops = <<>> \/ st.err # "none" THEN st
    ELSE RunOps(Tail(ops), ExecStmt(Head(ops), st))

(***************************************************************************)
(* NotebookExecutor._safe_cell_execution: returns (context, error).        *)
(* error "BaseException" stands for an exception that `except Exception`   *)
(* does not catch: it propagates out of the method.                        *)
(***************************************************************************)
\* variant: on a cell failure the working namespace is reset instead of kept
SafeCellExecution_ResetOnError(cell_code, context) ==
    LET st == RunOps(cell_code.ops,
                     [local |-> context, ctx |-> context,
                      rebound |-> {}, err |-> "none"])
    IN IF st.err = "none"
       THEN [context |-> st.local, error |-> "none"]
       ELSE [context |-> InitializeContext, error |-> st.err]

SafeCellExecution(cell_code, context) ==
    LET st == RunOps(cell_code.ops,
                     [local |-> context, ctx |-> context,
                      rebound |-> {}, err |-> "none"])
    IN IF st.err = "none"
       THEN [context |-> st.local, error |-> "none"]
       ELSE [context |-> st.ctx, error |-> st.err]

\* the three `continue` tests of the replay loop
SkippedCell(src) ==
    \/ src.blank
    \/ src.first = "!" \/ src.first = "%"
    \/ src.evalImport

(***************************************************************************)
(* The for-loop of execute_cells_until (cache miss).  The accumulator      *)
(* keeps, besides the working context, the ordinals of the cells that      *)
(* were executed, the ordinals warned about, and for every executed cell   *)
(* the context before and after it.                                        *)
(***************************************************************************)
RECURSIVE ReplayLoop(_, _, _, _)
ReplayLoop(cs, target, i, acc) ==
    IF i > Len(cs) THEN acc
    ELSE IF cs[i].original_index > target THEN acc          \* break
    ELSE IF SkippedCell(cs[i].source)
         THEN ReplayLoop(cs, target, i + 1, acc)            \* continue
    ELSE LET r == SafeCellExecution(cs[i].source, acc.context)
             step == [cell |-> i - 1, before |-> acc.context,
                      after |-> r.context, error |-> r.error]
         IN IF r.error = "BaseException"
            THEN [acc EXCEPT !.context = r.context,
                             !.executed = Append(@, i - 1),
                             !.steps = Append(@, step),
                             !.raised = TRUE]
            ELSE ReplayLoop(cs, target, i + 1,
                   [acc EXCEPT !.context = r.context,
                               !.executed = Append(@, i - 1),
                               !.steps = Append(@, step),
                               !.warnings = IF r.error = "none" THEN @
                                            ELSE Append(@, i - 1)])

\* variant: a negative target is clamped to the last cell
Replay_ClampNegative(cs, target) ==
    ReplayLoop(cs, IF target < 0 THEN Len(cs) ELSE target, 1,
               [context |-> InitializeContext, executed |-> <<>>,
                steps |-> <<>>, warnings |-> <<>>, raised |-> FALSE])

Replay(cs, target) ==
    ReplayLoop(cs, target, 1,
               [context |-> InitializeContext, executed |-> <<>>,
                steps |-> <<>>, warnings |-> <<>>, raised |-> FALSE])

\* copy.deepcopy of a cached namespace: a module object cannot be copied
DeepCopyFails(ns) == \E n \in Names : ns[n] = Module

(***************************************************************************)
(* execute_cells_until(target_cell_index)                                  *)
(***************************************************************************)
Targets == -1 .. NumCells

ExecuteCellsUntilHit(t) ==
    /\ Len(calls) < MaxCalls
    /\ t \in DOMAIN execution_cache
    /\ calls' = Append(calls,
           [target |-> t, hit |-> TRUE,
            raised |-> DeepCopyFails(execution_cache[t]),
            context |-> execution_cache[t],
            executed |-> <<>>, steps |-> <<>>, warnings |-> <<>>])
    /\ UNCHANGED <<notebook_data, cells, execution_cache>>
    /\ UNCHANGED llmVars
    /\ UNCHANGED gradeVars
    /\ UNCHANGED toolVars
    /\ UNCHANGED opVars

ExecuteCellsUntilMiss(t) ==
    /\ Len(calls) < MaxCalls
    /\ t \notin DOMAIN execution_cache
    /\ LET r == Replay(cells, t)
       IN /\ calls' = Append(calls,
                 [target |-> t, hit |-> FALSE, raised |-> r.raised,
                  context |-> r.context, executed |-> r.executed,
                  steps |-> r.steps, warnings |-> r.warnings])
          /\ execution_cache' =
                 IF r.raised THEN execution_cache
                 ELSE [k \in DOMAIN execution_cache \cup {t} |->
                          IF k = t THEN r.context ELSE execution_cache[k]]
    /\ UNCHANGED <<notebook_data, cells>>
    /\ UNCHANGED llmVars
    /\ UNCHANGED gradeVars
    /\ UNCHANGED toolVars
    /\ UNCHANGED opVars

(***************************************************************************)
(*                      LLMEvaluator (llm_integration.py)                  *)
(***************************************************************************)
MaxCompare == 2    \* compare_code calls made on one evaluator
MaxTime == 2       \* the clock is advanced between calls up to this second

Minute == 60       \* timedelta(minutes=1), in seconds
BackoffBase == 2   \* time.sleep(2 ** attempt)

\* Strings are sequences of characters, so that formatting the cache key is
\* a concatenation that can be compared.
Sep == <<"|">>
Triple(s, r, f) == [student_code |-> s, reference_code |-> r, function_name |-> f]
Triples ==
    { Triple(<<"a">>, <<"c">>, <<"f">>),
      Triple(<<"b">>, <<"c">>, <<"f">>) }

\* LLMEvaluator._generate_cache_key: md5 of f"{student}|{reference}|{name}".
\* The digest is represented by the content it is computed from.
GenerateCacheKey(student_code, reference_code, function_name) ==
    student_code \o Sep \o reference_code \o Sep \o function_name

CacheKeys ==
    { GenerateCacheKey(t.student_code, t.reference_code, t.function_name) :
          t \in Triples }

(***************************************************************************)
(* Verdicts (dicts).  keys is the set of keys of the dict; the other       *)
(* fields give the values of the keys that are present.  stamp is the      *)
(* "timestamp" the text parser adds (NoStamp when the key is absent).      *)
(***************************************************************************)
NoStamp == -1
VerdictKeys ==
    {"comparison_result", "score", "educational_feedback", "suggestions",
     "understanding_check"}
TextKeys == VerdictKeys \cup {"function_name", "timestamp"}
Dict(ks, cr, sc, st) ==
    [keys |-> ks, comparison_result |-> cr, score |-> sc, stamp |-> st]
EmptyDict == Dict({}, "", 0, NoStamp)
None == Dict({"<None>"}, "", 0, NoStamp)       \* Python's None
Truthy(d) == d # None /\ d.keys # {}           \* bool(d) for None or a dict

(***************************************************************************)
(* Provider responses.  isNone: the provider returned None instead of a    *)
(* string; brace: the stripped text starts with '{'; json: json.loads      *)
(* succeeds, giving obj; lines: for each line of the text the set of       *)
(* words of interest that occur in it as substrings.                       *)
(***************************************************************************)
Response(n, b, j, o, ls) ==
    [isNone |-> n, brace |-> b, json |-> j, obj |-> o, lines |-> ls]
RespNone      == Response(TRUE, FALSE, FALSE, EmptyDict, <<>>)
RespJsonGood  == Response(FALSE, TRUE, TRUE,
                          Dict(VerdictKeys, "correct", 90, NoStamp), <<>>)
RespJsonEmpty == Response(FALSE, TRUE, TRUE, EmptyDict, <<>>)
RespBadJson   == Response(FALSE, TRUE, FALSE, EmptyDict, <<{"partially"}>>)
RespText      == Response(FALSE, FALSE, FALSE, EmptyDict,
                          <<{"implementation"}, {"incorrect"}>>)
Responses == {RespNone, RespJsonGood, RespJsonEmpty, RespBadJson, RespText}

\* `word in line` on the lower-cased line: "incorrect" contains "correct"
InLine(word, line) ==
    \/ word \in line
    \/ word = "correct" /\ "incorrect" \in line

(***************************************************************************)
(* LLMEvaluator._parse_text_response                                       *)
(***************************************************************************)
RECURSIVE ParseLines(_, _)
ParseLines(lines, result) ==
    IF lines = <<>> THEN result
    ELSE LET line == Head(lines)
             r == IF InLine("correct", line) /\ InLine("implementation", line)
                  THEN [result EXCEPT !.comparison_result = "correct",
                                      !.score = 85]
                  ELSE IF InLine("incorrect", line) \/ InLine("error", line)
                  THEN [result EXCEPT !.comparison_result = "incorrect",
                                      !.score = 25]
                  ELSE IF InLine("partially", line) \/ InLine("almost", line)
                  THEN [result EXCEPT !.comparison_result = "partially_correct",
                                      !.score = 60]
                  ELSE result
         IN ParseLines(Tail(lines), r)

ParseTextResponse(response, clock) ==
    ParseLines(response.lines, Dict(TextKeys, "unknown", 50, clock))

(***************************************************************************)
(* LLMEvaluator._parse_comparison_response: [raised, result]               *)
(* response.strip() on None raises AttributeError.                         *)
(***************************************************************************)
ParseComparisonResponse(response, clock) ==
    IF response.isNone THEN [raised |-> TRUE, result |-> None]
    ELSE IF response.brace /\ response.json
         THEN [raised |-> FALSE, result |-> response.obj]
         ELSE [raised |-> FALSE, result |-> ParseTextResponse(response, clock)]

(***************************************************************************)
(* RateLimiter.wait_if_needed: [requests, slept]                           *)
(***************************************************************************)
\* variant: the list is not pruned
WaitIfNeeded_NoPrune(reqs, clock, rpm) ==
    LET kept == reqs
        sleep_time == IF Len(kept) >= rpm THEN Minute - (clock - kept[1]) ELSE 0
    IN [requests |-> Append(kept, clock),
        slept |-> IF sleep_time > 0 THEN sleep_time ELSE 0,
        kept |-> kept]

\* kept is self.requests right after the pruning step
WaitIfNeeded(reqs, clock, rpm) ==
    LET kept == SelectSeq(reqs, LAMBDA t : clock - t < Minute)
        sleep_time == IF Len(kept) >= rpm THEN Minute - (clock - kept[1]) ELSE 0
    IN [requests |-> Append(kept, clock),
        slept |-> IF sleep_time > 0 THEN sleep_time ELSE 0,
        kept |-> kept]

\* the record of one wait_if_needed call: when it was entered, the list
\* after pruning, and when the caller got past it
Passage(entered, gate) ==
    [entered |-> entered, kept |-> gate.kept, at |-> entered + gate.slept]

(***************************************************************************)
(* ResponseCache.get / ResponseCache.set.  A file is [timestamp, data];    *)
(* NoFile stands for a key without a file.                                 *)
(***************************************************************************)
NoFile == [timestamp |-> -1, data |-> None]

CacheGet(files, key, clock, ttl) ==
    IF files[key] = NoFile THEN [files |-> files, data |-> None]
    ELSE IF clock - files[key].timestamp > ttl
         THEN [files |-> [files EXCEPT ![key] = NoFile], data |-> None]
         ELSE [files |-> files, data |-> files[key].data]

CacheSet(files, key, data, clock) ==
    [files EXCEPT ![key] = [timestamp |-> clock, data |-> data]]

(***************************************************************************)
(* OllamaProvider/OpenAIProvider.generate_response.  The environment       *)
(* decides which request succeeds (ok_at, 0: none does) and with which     *)
(* response.  Result: [raised, response, nreq, slept].                     *)
(***************************************************************************)
RECURSIVE Pow(_, _)
Pow(b, e) == IF e = 0 THEN 1 ELSE b * Pow(b, e - 1)

\* what a generate_response call does, in order: requests and sleeps
Request(ok) == [ev |-> "request", ok |-> ok, secs |-> 0]
Sleep(secs) == [ev |-> "sleep", ok |-> FALSE, secs |-> secs]

RECURSIVE GenerateLoop(_, _, _, _)
GenerateLoop(attempt, retry_attempts, run, acc) ==
    IF attempt >= retry_attempts
    THEN [acc EXCEPT !.response = RespNone]       \* falls off the loop: None
    ELSE IF run.ok_at = attempt + 1
    THEN [acc EXCEPT !.response = run.response, !.nreq = @ + 1,
                     !.log = Append(@, Request(TRUE))]
    ELSE IF attempt = retry_attempts - 1
    THEN [acc EXCEPT !.raised = TRUE, !.nreq = @ + 1,
                     !.log = Append(@, Request(FALSE))]
    ELSE GenerateLoop(attempt + 1, retry_attempts, run,
             [acc EXCEPT !.nreq = @ + 1,
                         !.slept = @ + Pow(BackoffBase, attempt),
                         !.log = @ \o <<Request(FALSE),
                                        Sleep(Pow(BackoffBase, attempt))>>])

\* variant: one request more than retry_attempts is made
GenerateResponse_OneMoreRetry(retry_attempts, run) ==
    GenerateLoop(0, retry_attempts + 1, run,
        [raised |-> FALSE, response |-> RespNone, nreq |-> 0, slept |-> 0,
         log |-> <<>>])

GenerateResponse(retry_attempts, run) ==
    GenerateLoop(0, retry_attempts, run,
        [raised |-> FALSE, response |-> RespNone, nreq |-> 0, slept |-> 0,
         log |-> <<>>])

ProviderRuns(retry_attempts) ==
    {[ok_at |-> 0, response |-> RespNone]} \cup
    [ok_at : 1..retry_attempts, response : Responses]

(***************************************************************************)
(* The provider loop of compare_code: primary, then fallback.  attempts    *)
(* lists, in order, the providers tried with the outcome of each try.      *)
(***************************************************************************)
TryProvider(name, retry_attempts, run, clock, acc) ==
    LET g == GenerateResponse(retry_attempts, run)
        p == ParseComparisonResponse(g.response, clock + g.slept)
        failed == g.raised \/ p.raised
    IN [acc EXCEPT
          !.attempts = Append(@, [provider |-> name, failed |-> failed,
                                  nreq |-> g.nreq, response |-> g.response]),
          !.slept = @ + g.slept,
          !.found = ~failed,
          !.result = IF failed THEN @ ELSE p.result]

\* variant: no `break` after a successful provider: the fallback is tried too
ProviderLoop_NoBreak(cfg, runP, runF, clock) ==
    LET start == [attempts |-> <<>>, slept |-> 0, found |-> FALSE,
                  result |-> None]
        afterP == TryProvider("primary", cfg.retry_primary, runP, clock, start)
        afterF == TryProvider("fallback", cfg.retry_fallback, runF,
                              clock + afterP.slept, afterP)
    IN IF ~cfg.has_fallback THEN afterP
       ELSE [afterF EXCEPT !.found = afterP.found \/ afterF.found]

ProviderLoop(cfg, runP, runF, clock) ==
    LET start == [attempts |-> <<>>, slept |-> 0, found |-> FALSE,
                  result |-> None]
        afterP == TryProvider("primary", cfg.retry_primary, runP, clock, start)
    IN IF afterP.found \/ ~cfg.has_fallback THEN afterP
       ELSE TryProvider("fallback", cfg.retry_fallback, runF,
                        clock + afterP.slept, afterP)

(***************************************************************************)
(* compare_code(student_code, reference_code, function_name)               *)
(***************************************************************************)
CompareCode(triple, runP, runF) ==
    /\ ncompare < MaxCompare
    /\ LET gate == WaitIfNeeded(requests, now, config.requests_per_minute)
           t1 == now + gate.slept
           cache_key == GenerateCacheKey(triple.student_code,
                            triple.reference_code, triple.function_name)
           looked == IF config.cache_enabled
                     THEN CacheGet(cache_files, cache_key, t1, config.ttl_seconds)
                     ELSE [files |-> cache_files, data |-> None]
           hit == config.cache_enabled /\ Truthy(looked.data)
           loop == ProviderLoop(config, runP, runF, t1)
           t2 == t1 + loop.slept
       IN /\ requests' = gate.requests
          /\ passed' = Append(passed, Passage(now, gate))
          /\ ncompare' = ncompare + 1
          /\ pre_cache' = cache_files
          /\ IF hit
             THEN /\ now' = t1
                  /\ cache_files' = looked.files
                  /\ last' = [triple |-> triple, key |-> cache_key,
                              lookup_time |-> t1, hit |-> TRUE,
                              raised |-> FALSE, result |-> looked.data,
                              attempts |-> <<>>, gate_slept |-> gate.slept]
             ELSE /\ now' = t2
                  /\ cache_files' =
                        IF loop.found /\ config.cache_enabled
                        THEN CacheSet(looked.files, cache_key, loop.result, t2)
                        ELSE looked.files
                  /\ last' = [triple |-> triple, key |-> cache_key,
                              lookup_time |-> t1, hit |-> FALSE,
                              raised |-> ~loop.found, result |-> loop.result,
                              attempts |-> loop.attempts,
                              gate_slept |-> gate.slept]
    /\ UNCHANGED config
    /\ UNCHANGED execVars
    /\ UNCHANGED gradeVars
    /\ UNCHANGED toolVars
    /\ UNCHANGED opVars

\* time passes between two calls
Tick ==
    /\ now < MaxTime
    /\ now' = now + 1
    /\ UNCHANGED <<config, requests, cache_files, ncompare, pre_cache, last,
                   passed>>
    /\ UNCHANGED execVars
    /\ UNCHANGED gradeVars
    /\ UNCHANGED toolVars
    /\ UNCHANGED opVars

Config(ce, rpm, hf, rf) ==
    [cache_enabled |-> ce, ttl_seconds |-> 1, requests_per_minute |-> rpm,
     has_fallback |-> hf, retry_primary |-> 2, retry_fallback |-> rf]
Configs ==
    { Config(TRUE, 2, TRUE, 1), Config(FALSE, 2, TRUE, 1),
      Config(TRUE, 1, FALSE, 1), Config(TRUE, 2, TRUE, 0) }

NoCall == [triple |-> Triple(<<>>, <<>>, <<>>), key |-> <<>>,
           lookup_time |-> 0, hit |-> FALSE, raised |-> FALSE,
           result |-> None, attempts |-> <<>>, gate_slept |-> 0]

LLMStart ==
    /\ now = 0
    /\ requests = <<>>
    /\ cache_files = [k \in CacheKeys |-> NoFile]
    /\ ncompare = 0
    /\ pre_cache = [k \in CacheKeys |-> NoFile]
    /\ last = NoCall
    /\ passed = <<>>

LLMIdle ==
    /\ config = [cache_enabled |-> FALSE, ttl_seconds |-> 0,
                 requests_per_minute |-> 0, has_fallback |-> FALSE,
                 retry_primary |-> 0, retry_fallback |-> 0]
    /\ LLMStart

ExecIdle ==
    /\ notebook_data = <<>>
    /\ cells = <<>>
    /\ execution_cache = [k \in {} |-> InitializeContext]
    /\ calls = <<>>

(***************************************************************************)
(*     NotebookExecutor.find_function_cell, validate_context_for_function  *)
(***************************************************************************)
NumLocCells == 2   \* code cells of the notebook searched
MaxFinds == 2      \* find_function_cell calls made on one executor

\* One line of a cell's source, as far as the header pattern reads it:
\*   indent : the line starts with whitespace
\*   lead   : "def" (the keyword starts the line's text), "# def" (the
\*            keyword follows a comment sign), "other" (no `def` in the line)
\*   gap    : number of blanks between `def` and the name
\*   name   : the identifier text that follows the blanks
\*   after  : the text right after that identifier text
Line(ind, ld, g, n, a) ==
    [indent |-> ind, lead |-> ld, gap |-> g, name |-> n, after |-> a]

OtherLine == Line(FALSE, "other", 0, "", "")

\* the sources of the code cells, each a sequence of lines
Sources ==
    { <<OtherLine>>,
      <<Line(FALSE, "def", 1, "aggregate_values", "(")>>,
      <<OtherLine, Line(TRUE, "def", 1, "aggregate_values", " (")>>,
      <<Line(FALSE, "def", 1, "aggregate_values", "_v2(")>>,
      <<Line(FALSE, "# def", 1, "aggregate_values", "(")>>,
      <<Line(FALSE, "def", 1, "create_qkv_projections", "("),
        Line(FALSE, "def", 2, "aggregate_values", "(")>> }

LocNotebooks == [1..NumLocCells -> Sources]

\* the names find_function_cell is asked for
SearchedNames == {"aggregate_values", "create_qkv_projections",
                  "compute_attention_scores"}

\* re.search(rf'^\s*def\s+{name}\s*\(', source, re.MULTILINE) on one line:
\* optional whitespace, `def`, at least one blank, the name, optional
\* blanks, an opening parenthesis
PatternMatchesLine(line, function_name) ==
    /\ line.lead = "def"
    /\ line.gap >= 1
    /\ line.name = function_name
    /\ line.after \in {"(", " ("}

PatternMatches(source, function_name) ==
    \E k \in 1..Len(source) : PatternMatchesLine(source[k], function_name)

RECURSIVE FindFrom(_, _, _)
FindFrom(cs, function_name, i) ==
    IF i > Len(cs) THEN -1
    ELSE IF PatternMatches(cs[i], function_name) THEN i - 1
    ELSE FindFrom(cs, function_name, i + 1)

RECURSIVE FindLastFrom(_, _, _)
FindLastFrom(cs, function_name, i) ==
    IF i < 1 THEN -1
    ELSE IF PatternMatches(cs[i], function_name) THEN i - 1
    ELSE FindLastFrom(cs, function_name, i - 1)

\* variant: the last matching cell is returned
FindFunctionCell_Last(cs, function_name) ==
    FindLastFrom(cs, function_name, Len(cs))

FindFunctionCell(cs, function_name) ==
    FindFrom(cs, function_name, 1)

FindFunctionCellCall(function_name) ==
    /\ Len(loc_calls) < MaxFinds
    /\ loc_calls' = Append(loc_calls,
           [function_name |-> function_name,
            result |-> FindFunctionCell(loc_cells, function_name)])
    /\ UNCHANGED <<loc_cells, val_last>>
    /\ UNCHANGED execVars
    /\ UNCHANGED llmVars
    /\ UNCHANGED gradeVars
    /\ UNCHANGED opVars

\* the static table `requirements` of validate_context_for_function
Requirements(function_name) ==
    CASE function_name = "create_qkv_projections" ->
             <<"embeddings", "torch", "nn">>
      [] function_name = "compute_attention_scores" ->
             <<"Q", "K", "torch", "math">>
      [] function_name = "compute_attention_weights" ->
             <<"attention_scores", "F">>
      [] function_name = "aggregate_values" ->
             <<"attention_weights", "V", "torch">>
      [] OTHER -> <<>>

\* the namespaces handed to validate_context_for_function, by their keys
ContextNames == {"embeddings", "torch", "nn"}
ValidatedFunctions == {"create_qkv_projections", "compute_attention_scores",
                       "unknown_function"}

\* variant: every required name is reported
ValidateContextForFunction_AllRequired(function_name, context) ==
    [ok |-> Len(Requirements(function_name)) = 0,
     missing |-> Requirements(function_name),
     context |-> context]

\* validate_context_for_function: (is_valid, missing) and the namespace as
\* the call leaves it
ValidateContextForFunction(function_name, context) ==
    LET required == Requirements(function_name)
        absent(v) == v \notin context
        missing == SelectSeq(required, absent)
    IN [ok |-> Len(missing) = 0, missing |-> missing, context |-> context]

NoValidation == [function_name |-> "", given |-> {}, ok |-> FALSE,
                 missing |-> <<>>, context |-> {}]

ValidateCall(function_name, context) ==
    /\ LET r == ValidateContextForFunction(function_name, context)
       IN val_last' = [function_name |-> function_name, given |-> context,
                       ok |-> r.ok, missing |-> r.missing,
                       context |-> r.context]
    /\ UNCHANGED <<loc_cells, loc_calls>>
    /\ UNCHANGED execVars
    /\ UNCHANGED llmVars
    /\ UNCHANGED gradeVars
    /\ UNCHANGED opVars

ToolIdle ==
    /\ loc_cells = <<>>
    /\ loc_calls = <<>>
    /\ val_last = NoValidation

(***************************************************************************)
(*        Single operations, each observed in `unit` after it ran.         *)
(* The operations keep no state between calls, so each is observed once,   *)
(* from the initial state.                                                 *)
(***************************************************************************)
NoUnit == [op |-> "none"]

(***************************************************************************)
(* NotebookExecutor.__init__ on the file at notebook_path.                 *)
(* A document is the file: readable (it can be opened), well_formed        *)
(* (json.load succeeds), and then the JSON value: top is "object" or       *)
(* "list", keys the keys of the object, cells the value of "cells".        *)
(***************************************************************************)
Document(rd, wf, tp, ks, cs) ==
    [readable |-> rd, well_formed |-> wf, top |-> tp, keys |-> ks, cells |-> cs]
Documents ==
    { Document(FALSE, FALSE, "", {}, <<>>),               \* no such file
      Document(TRUE, FALSE, "", {}, <<>>),                \* malformed JSON
      Document(TRUE, TRUE, "list", {}, <<>>),             \* the JSON `[]`
      Document(TRUE, TRUE, "object", {"metadata"}, <<>>)  \* no "cells" key
    } \cup
    { Document(TRUE, TRUE, "object", {"cells", "metadata"}, cs) :
          cs \in {<<>>, <<MarkdownCell>>, <<BlankCell>>,
                  <<MarkdownCell, BlankCell>>} }

\* _load_notebook: any exception of open or json.load becomes a ValueError
\* whose message carries the exception
LoadNotebook(doc) ==
    IF ~doc.readable
    THEN [raised |-> TRUE, error |-> "ValueError", cause |-> "FileNotFoundError"]
    ELSE IF ~doc.well_formed
    THEN [raised |-> TRUE, error |-> "ValueError", cause |-> "JSONDecodeError"]
    ELSE [raised |-> FALSE, error |-> "", cause |-> ""]

\* self.notebook_data.get('cells', [])
GetCells(doc) == IF "cells" \in doc.keys THEN doc.cells ELSE <<>>

\* __init__: [raised, error, cause, cells]; a JSON list has no .get
NotebookExecutorInit(doc) ==
    LET l == LoadNotebook(doc)
    IN IF l.raised
       THEN [raised |-> TRUE, error |-> l.error, cause |-> l.cause,
             cells |-> <<>>]
       ELSE IF doc.top # "object"
       THEN [raised |-> TRUE, error |-> "AttributeError", cause |-> "",
             cells |-> <<>>]
       ELSE [raised |-> FALSE, error |-> "", cause |-> "",
             cells |-> ExtractCodeCells(GetCells(doc))]

Construct(doc) ==
    /\ unit = NoUnit
    /\ unit' = [op |-> "construct", doc |-> doc,
                out |-> NotebookExecutorInit(doc)]
    /\ UNCHANGED <<grade_dirs, runs, cc>>
    /\ UNCHANGED execVars
    /\ UNCHANGED llmVars
    /\ UNCHANGED gradeVars
    /\ UNCHANGED toolVars

(***************************************************************************)
(* LLMEvaluator._parse_text_response on a text of 1..MaxLines lines        *)
(* (str.split gives at least one line), each line holding any of five      *)
(* words the parser looks for.                                             *)
(***************************************************************************)
MaxLines == 2
RECURSIVE SeqsUpTo(_, _)
SeqsUpTo(S, n) ==
    IF n = 0 THEN {<<>>}
    ELSE LET shorter == SeqsUpTo(S, n - 1)
         IN shorter \cup { Append(q, x) : q \in shorter, x \in S }

TextResponses ==
    { Response(FALSE, FALSE, FALSE, EmptyDict, ls) :
          ls \in SeqsUpTo(SUBSET {"correct", "incorrect", "implementation",
                                  "partially", "error"}, MaxLines) \ {<<>>} }

ParseTextCall(response) ==
    /\ unit = NoUnit
    /\ unit' = [op |-> "parse_text", response |-> response,
                out |-> ParseTextResponse(response, 0)]
    /\ UNCHANGED <<grade_dirs, runs, cc>>
    /\ UNCHANGED execVars
    /\ UNCHANGED llmVars
    /\ UNCHANGED gradeVars
    /\ UNCHANGED toolVars

(***************************************************************************)
(* One generate_response call of a provider with retry_attempts retries    *)
(***************************************************************************)
MaxRetry == 3

GenerateResponseCall(retry_attempts, run) ==
    /\ unit = NoUnit
    /\ unit' = [op |-> "generate_response", retry_attempts |-> retry_attempts,
                run |-> run, out |-> GenerateResponse(retry_attempts, run)]
    /\ UNCHANGED <<grade_dirs, runs, cc>>
    /\ UNCHANGED execVars
    /\ UNCHANGED llmVars
    /\ UNCHANGED gradeVars
    /\ UNCHANGED toolVars

(***************************************************************************)
(* LLMEvaluator._generate_cache_key on two triples.  Code is any string    *)
(* of at most MaxCode characters over Alphabet, which has the separator.   *)
(***************************************************************************)
MaxCode == 2
Alphabet == {"a", "|"}
CodeTriples ==
    { Triple(sc, rc, <<"f">>) : sc \in SeqsUpTo(Alphabet, MaxCode),
                                rc \in SeqsUpTo(Alphabet, MaxCode) }

CacheKeyCall(t1, t2) ==
    /\ unit = NoUnit
    /\ unit' = [op |-> "cache_key", first |-> t1, second |-> t2,
                key_first |-> GenerateCacheKey(t1.student_code,
                                  t1.reference_code, t1.function_name),
                key_second |-> GenerateCacheKey(t2.student_code,
                                  t2.reference_code, t2.function_name)]
    /\ UNCHANGED <<grade_dirs, runs, cc>>
    /\ UNCHANGED execVars
    /\ UNCHANGED llmVars
    /\ UNCHANGED gradeVars
    /\ UNCHANGED toolVars

(***************************************************************************)
(* run_notebook_evaluation: attempt numbering over the directory grade/.   *)
(* An entry of grade/ is a directory or a file.  Of its name the model     *)
(* keeps: starts (it starts with "attempt_"), numeric (int() accepts the   *)
(* text between the first and the second underscore), num (that integer)   *)
(* and plain (nothing follows the integer).                                *)
(***************************************************************************)
MaxRuns == 2

Entry(d, st, nm, n, pl) ==
    [is_dir |-> d, starts |-> st, numeric |-> nm, num |-> n, plain |-> pl]
AttemptDir(n) == Entry(TRUE, TRUE, TRUE, n, TRUE)       \* attempt_<n>/
AttemptFile(n) == Entry(FALSE, TRUE, TRUE, n, TRUE)     \* a file attempt_<n>
InitialEntries ==
    { AttemptDir(1), AttemptDir(3), AttemptFile(2),
      Entry(TRUE, TRUE, TRUE, 2, FALSE),                \* attempt_2_old/
      Entry(TRUE, TRUE, FALSE, 0, FALSE),               \* attempt_x/
      Entry(TRUE, FALSE, FALSE, 0, FALSE) }             \* notes/

\* existing_attempts: the numbers parsed from the directories attempt_*
ExistingAttempts(entries) ==
    { e.num : e \in { x \in entries : x.is_dir /\ x.starts /\ x.numeric } }

Max(S) == CHOOSE m \in S : \A x \in S : x <= m

\* variant: the number of attempt directories found plus one
NextAttempt_Count(entries) == Cardinality(ExistingAttempts(entries)) + 1

NextAttempt(entries) ==
    IF ExistingAttempts(entries) # {}
    THEN Max(ExistingAttempts(entries)) + 1
    ELSE 1

\* _create_grade_directory: mkdir(parents=True, exist_ok=True) raises
\* FileExistsError when a file of that name is in the way
CreateGradeDirectory(entries, attempt_number) ==
    IF AttemptFile(attempt_number) \in entries
    THEN [raised |-> TRUE, entries |-> entries]
    ELSE [raised |-> FALSE,
          entries |-> entries \cup {AttemptDir(attempt_number)}]

\* one run: the number is chosen, grade_notebook creates the directory and
\* writes grade_report_attempt_<n>.json into it (or returns its error dict)
RunNotebookEvaluation ==
    /\ Len(runs) < MaxRuns
    /\ LET next_attempt == NextAttempt(grade_dirs)
           made == CreateGradeDirectory(grade_dirs, next_attempt)
       IN /\ grade_dirs' = made.entries
          /\ runs' = Append(runs, [attempt |-> next_attempt,
                                   before |-> grade_dirs,
                                   created |-> ~made.raised])
    /\ UNCHANGED <<unit, cc>>
    /\ UNCHANGED execVars
    /\ UNCHANGED llmVars
    /\ UNCHANGED gradeVars
    /\ UNCHANGED toolVars

(***************************************************************************)
(* The function test of compute_attention_weights in                       *)
(* _run_function_tests_with_context (the same test is in                   *)
(* _run_function_tests).  The student's output is a tensor: shape is its   *)
(* shape, rows a reduced content of NumRows rows of two entries each, in   *)
(* halves (One is 1.0), so that the tolerance of 1e-6 is below one unit.   *)
(***************************************************************************)
NumRows == 2
MaxEntry == 3
One == 2           \* torch.ones_like(weights_sum), in halves

Tensors ==
    [shape : {<<1, 6, 6>>, <<6, 6>>},
     rows : [1..NumRows -> [1..2 -> -1..MaxEntry]]]

\* torch.sum(weights, dim=-1)
SumLastDim(rows) == [i \in DOMAIN rows |-> rows[i][1] + rows[i][2]]

\* torch.allclose(weights_sum, torch.ones_like(weights_sum), atol=1e-6)
AllCloseToOnes(sums) == \A i \in DOMAIN sums : sums[i] = One

\* the dict the test returns, for the output `weights` of the student
WeightsFunctionTest(weights) ==
    LET sum_check == AllCloseToOnes(SumLastDim(weights.rows))
    IN [valid |-> weights.shape = <<1, 6, 6>> /\ sum_check,
        output_shape |-> weights.shape,
        weights_sum_to_one |-> sum_check,
        test_passed |-> TRUE]

WeightsFunctionTestCall(weights) ==
    /\ unit = NoUnit
    /\ unit' = [op |-> "weights_test", weights |-> weights,
                out |-> WeightsFunctionTest(weights)]
    /\ UNCHANGED <<grade_dirs, runs, cc>>
    /\ UNCHANGED execVars
    /\ UNCHANGED llmVars
    /\ UNCHANGED gradeVars
    /\ UNCHANGED toolVars

(***************************************************************************)
(* compare_code step by step.  cc is the call in progress:                 *)
(*   pc       : "idle" (no call yet), "gate" (in wait_if_needed),          *)
(*              "sleeping" (in its time.sleep), "cache" (at the lookup),   *)
(*              "request" (at the head of a provider's retry loop),        *)
(*              "backoff" (in the sleep between two requests), "parse",    *)
(*              "done" (returned or raised)                                *)
(*   provider : the provider of the loop, attempt : its loop variable      *)
(*   nreq     : provider requests sent, gate_sleeps : sleeps of the gate   *)
(*   entered, wake : when the gate was entered and when its sleep ends     *)
(*   outcome  : "verdict" (returned) or "raised" (all providers failed)    *)
(***************************************************************************)
NotStarted ==
    [pc |-> "idle", triple |-> Triple(<<>>, <<>>, <<>>),
     provider |-> "primary", attempt |-> 0, nreq |-> 0, gate_sleeps |-> 0,
     entered |-> 0, wake |-> 0, response |-> RespNone, result |-> None,
     outcome |-> "none"]

\* variant: range(retry_attempts + 1)
RetryLimit_OneMore(cfg, provider) ==
    IF provider = "primary" THEN cfg.retry_primary + 1
    ELSE cfg.retry_fallback + 1

\* self.config["retry_attempts"] of the provider
RetryLimit(cfg, provider) ==
    IF provider = "primary" THEN cfg.retry_primary ELSE cfg.retry_fallback

\* `except Exception: continue` of the provider loop, then `if result is None`
ProviderFailed(c, cfg) ==
    IF c.provider = "primary" /\ cfg.has_fallback
    THEN [c EXCEPT !.pc = "request", !.provider = "fallback", !.attempt = 0]
    ELSE [c EXCEPT !.pc = "done", !.outcome = "raised"]

CcFrame ==
    /\ UNCHANGED <<config, pre_cache, last, passed>>
    /\ UNCHANGED <<unit, grade_dirs, runs>>
    /\ UNCHANGED execVars
    /\ UNCHANGED gradeVars
    /\ UNCHANGED toolVars

\* compare_code is called
CcBegin(triple) ==
    /\ cc.pc \in {"idle", "done"}
    /\ ncompare < MaxCompare
    /\ ncompare' = ncompare + 1
    /\ cc' = [NotStarted EXCEPT !.pc = "gate", !.triple = triple,
                                !.entered = now]
    /\ UNCHANGED <<now, requests, cache_files>>
    /\ CcFrame

\* wait_if_needed up to its time.sleep, or all of it when it does not sleep
CcGate ==
    /\ cc.pc = "gate"
    /\ LET gate == WaitIfNeeded(requests, now, config.requests_per_minute)
       IN IF gate.slept > 0
          THEN /\ requests' = gate.kept
               /\ cc' = [cc EXCEPT !.pc = "sleeping",
                                   !.wake = now + gate.slept,
                                   !.gate_sleeps = @ + 1]
          ELSE /\ requests' = gate.requests
               /\ cc' = [cc EXCEPT !.pc = "cache"]
    /\ UNCHANGED <<now, cache_files, ncompare>>
    /\ CcFrame

\* the sleep of wait_if_needed ends; self.requests.append(now)
CcWake ==
    /\ cc.pc = "sleeping"
    /\ now' = cc.wake
    /\ requests' = Append(requests, cc.entered)
    /\ cc' = [cc EXCEPT !.pc = "cache"]
    /\ UNCHANGED <<cache_files, ncompare>>
    /\ CcFrame

\* the cache lookup
CcCache ==
    /\ cc.pc = "cache"
    /\ LET key == GenerateCacheKey(cc.triple.student_code,
                      cc.triple.reference_code, cc.triple.function_name)
           looked == IF config.cache_enabled
                     THEN CacheGet(cache_files, key, now, config.ttl_seconds)
                     ELSE [files |-> cache_files, data |-> None]
       IN /\ cache_files' = looked.files
          /\ cc' = IF config.cache_enabled /\ Truthy(looked.data)
                   THEN [cc EXCEPT !.pc = "done", !.outcome = "verdict",
                                   !.result = looked.data]
                   ELSE [cc EXCEPT !.pc = "request", !.provider = "primary",
                                   !.attempt = 0]
    /\ UNCHANGED <<now, requests, ncompare>>
    /\ CcFrame

\* one provider request, which ends with a response or with a failure
CcRequest(ok, response) ==
    /\ cc.pc = "request"
    /\ cc.attempt < RetryLimit(config, cc.provider)
    /\ LET sent == [cc EXCEPT !.nreq = @ + 1]
       IN cc' = IF ok
                THEN [sent EXCEPT !.pc = "parse", !.response = response]
                ELSE IF cc.attempt = RetryLimit(config, cc.provider) - 1
                THEN ProviderFailed(sent, config)
                ELSE [sent EXCEPT !.pc = "backoff"]
    /\ UNCHANGED <<now, requests, cache_files, ncompare>>
    /\ CcFrame

\* range(retry_attempts) is exhausted without a request: None is returned
CcFallOff ==
    /\ cc.pc = "request"
    /\ cc.attempt >= RetryLimit(config, cc.provider)
    /\ cc' = [cc EXCEPT !.pc = "parse", !.response = RespNone]
    /\ UNCHANGED <<now, requests, cache_files, ncompare>>
    /\ CcFrame

\* time.sleep(2 ** attempt), then the next iteration
CcBackoff ==
    /\ cc.pc = "backoff"
    /\ now' = now + Pow(BackoffBase, cc.attempt)
    /\ cc' = [cc EXCEPT !.pc = "request", !.attempt = @ + 1]
    /\ UNCHANGED <<requests, cache_files, ncompare>>
    /\ CcFrame

\* _parse_comparison_response, then `break`, cache.set and return
CcParse ==
    /\ cc.pc = "parse"
    /\ LET p == ParseComparisonResponse(cc.response, now)
           key == GenerateCacheKey(cc.triple.student_code,
                      cc.triple.reference_code, cc.triple.function_name)
       IN IF p.raised
          THEN /\ cc' = ProviderFailed(cc, config)
               /\ UNCHANGED cache_files
          ELSE /\ cc' = [cc EXCEPT !.pc = "done", !.outcome = "verdict",
                                   !.result = p.result]
               /\ cache_files' = IF config.cache_enabled
                                 THEN CacheSet(cache_files, key, p.result, now)
                                 ELSE cache_files
    /\ UNCHANGED <<now, requests, ncompare>>
    /\ CcFrame

\* a second passes between two calls
CcTick ==
    /\ cc.pc \in {"idle", "done"}
    /\ now < MaxTime
    /\ now' = now + 1
    /\ UNCHANGED <<cc, requests, cache_files, ncompare>>
    /\ CcFrame

\* the steps of a call in progress
CcStep ==
    \/ CcGate
    \/ CcWake
    \/ CcCache
    \/ \E ok \in BOOLEAN : \E response \in Responses : CcRequest(ok, response)
    \/ CcFallOff
    \/ CcBackoff
    \/ CcParse

TermConfigs ==
    { Config(TRUE, 1, TRUE, 1), Config(FALSE, 1, FALSE, 1),
      Config(TRUE, 2, TRUE, 0) }

OpsIdle ==
    /\ unit = NoUnit
    /\ grade_dirs = {}
    /\ runs = <<>>
    /\ cc = NotStarted

(***************************************************************************)
(*                      grade_notebook (evaluation.py)                     *)
(***************************************************************************)
NumGradeCells == 2     \* code cells of the graded notebook

\* the fallback cell mapping of _load_epic1_cell_mapping: section_1..section_4
CellMapping ==
    << [section |-> "section_1", todo_function |-> "create_qkv_projections"],
       [section |-> "section_2", todo_function |-> "compute_attention_scores"],
       [section |-> "section_3", todo_function |-> "compute_attention_weights"],
       [section |-> "section_4", todo_function |-> "aggregate_values"] >>

RequiredFunctions == {CellMapping[i].todo_function : i \in 1..Len(CellMapping)}

\* A code cell of the graded notebook, by the definitions its source holds:
\*   exact : names f with a definition header `def f(`
\*   loose : names f for which the text `def f` occurs only inside something
\*           else (`def f_v2(`, a commented-out header)
GCell(e, l) == [exact |-> e, loose |-> l]
GradeCells ==
    { GCell({}, {}),
      GCell({"create_qkv_projections", "compute_attention_scores",
             "compute_attention_weights"}, {}),
      GCell({"compute_attention_weights"}, {}),
      GCell({"aggregate_values"}, {}),
      GCell({}, {"aggregate_values"}) }

GradeNotebooks ==
    {[status |-> "missing", cells |-> <<>>],
     [status |-> "malformed", cells |-> <<>>]} \cup
    {[status |-> "ok", cells |-> c] : c \in [1..NumGradeCells -> GradeCells]}

\* f'def {function_name}' in cell.source
HasDefText(cell, function_name) ==
    function_name \in cell.exact \/ function_name \in cell.loose

(***************************************************************************)
(* _extract_student_code: the implementations, in the order of the         *)
(* mapping.  code is the list of the code_parts (the ordinals of the cells *)
(* joined), so code is the empty string exactly when the list is empty.    *)
(***************************************************************************)
RECURSIVE LastMatch(_, _, _, _)
LastMatch(cs, function_name, idx, found) ==
    IF idx > Len(cs) THEN found
    ELSE LastMatch(cs, function_name, idx + 1,
                   IF HasDefText(cs[idx], function_name) THEN idx - 1 ELSE found)

Implementation(sec, fn, parts, ci) ==
    [section |-> sec, function_name |-> fn, code |-> parts, cell_index |-> ci]

ExtractStudentCode(nb, cell_mapping) ==
    IF nb.status = "missing" THEN <<>>
    ELSE IF nb.status = "malformed"
    THEN [i \in 1..Len(cell_mapping) |->
             Implementation(cell_mapping[i].section,
                            cell_mapping[i].todo_function, <<>>, -1)]
    ELSE [i \in 1..Len(cell_mapping) |->
             LET fn == cell_mapping[i].todo_function
             IN Implementation(cell_mapping[i].section, fn,
                    SelectSeq([j \in 1..Len(nb.cells) |-> j - 1],
                              LAMBDA o : HasDefText(nb.cells[o + 1], fn)),
                    LastMatch(nb.cells, fn, 1, -1))]

(***************************************************************************)
(* evaluate_cell_implementation: the verdict of compare_code, or the       *)
(* error verdict when compare_code (or the evaluator's construction)       *)
(* raises.                                                                 *)
(***************************************************************************)
ErrorVerdict == Dict(VerdictKeys \cup {"error"}, "error", 0, NoStamp)
NotImplementedVerdict ==
    Dict({"comparison_result", "score", "educational_feedback"},
         "not_implemented", 0, NoStamp)

JudgeRaises == [raised |-> TRUE, result |-> None]
JudgeOutcomes ==
    { JudgeRaises,
      [raised |-> FALSE, result |-> Dict(VerdictKeys, "correct", 100, NoStamp)],
      [raised |-> FALSE, result |-> EmptyDict],
      \* the provider's JSON has a verdict but no score
      [raised |-> FALSE,
       result |-> Dict(VerdictKeys \ {"score"}, "correct", 0, NoStamp)] }

\* variant: the exception of compare_code is not turned into an error verdict
EvaluateCellImplementation_NoCatch(function_name, outcome) ==
    outcome.result

EvaluateCellImplementation(function_name, outcome) ==
    IF function_name \notin RequiredFunctions THEN ErrorVerdict
    ELSE IF outcome.raised THEN ErrorVerdict
    ELSE outcome.result

\* _score_to_letter_grade, on the mean total / n (n > 0) or on 0
ScoreToLetterGrade(total, n) ==
    LET d == IF n = 0 THEN 1 ELSE n
    IN IF total >= 90 * d THEN "A"
       ELSE IF total >= 80 * d THEN "B"
       ELSE IF total >= 70 * d THEN "C"
       ELSE IF total >= 60 * d THEN "D"
       ELSE "F"

RECURSIVE Sum(_)
Sum(q) == IF q = <<>> THEN 0 ELSE Head(q) + Sum(Tail(q))

(***************************************************************************)
(* The context-aware function test.  What the student's notebook does is   *)
(* given per function by a scenario:                                       *)
(*   replay : how NotebookExecutor(path).execute_cells_until(cell_index)   *)
(*            ends: "ok", "raise" (an Exception), "exit" (SystemExit or    *)
(*            KeyboardInterrupt, which `except Exception` does not catch)  *)
(*   absent : a required context variable, or the function itself, is not  *)
(*            in the replayed namespace                                    *)
(*   invoke : how calling the student function ends: "valid" (result of    *)
(*            the expected shape), "invalid", "raise", "exit"              *)
(***************************************************************************)
Scenario(r, a, i) == [replay |-> r, absent |-> a, invoke |-> i]
GoodScenario == Scenario("ok", FALSE, "valid")

TestResult(v, e) == [raised |-> FALSE, valid |-> v, error |-> e]
TestRaised == [raised |-> TRUE, valid |-> FALSE, error |-> FALSE]

\* _run_function_tests_with_context
RunFunctionTestsWithContext(sc) ==
    CASE sc.invoke = "valid"   -> TestResult(TRUE, FALSE)
      [] sc.invoke = "invalid" -> TestResult(FALSE, FALSE)
      [] sc.invoke = "raise"   -> TestResult(FALSE, TRUE)    \* except Exception
      [] sc.invoke = "exit"    -> TestRaised

\* _test_student_implementation_with_context
TestStudentImplementationWithContext(function_name, cell_index, sc) ==
    IF cell_index = -1 THEN TestResult(FALSE, TRUE)
    ELSE IF sc.replay = "exit" THEN TestRaised
    ELSE IF sc.replay = "raise" THEN TestResult(FALSE, TRUE)  \* except Exception
    ELSE IF sc.absent THEN TestResult(FALSE, TRUE)
    ELSE RunFunctionTestsWithContext(sc)

NoReport == [kind |-> "none", total |-> 0, terms |-> 0, grade |-> "",
             sections |-> <<>>]

\* grade_notebook up to the loop: directory, mapping, extraction
GradeStart ==
    /\ pc = "start"
    /\ implementations' = ExtractStudentCode(g_notebook, CellMapping)
    /\ sec_i' = 1
    /\ section_results' = <<>>
    /\ overall_scores' = <<>>
    /\ pc' = "loop"
    /\ UNCHANGED <<g_notebook, judge, tensor, judge_calls, report>>
    /\ UNCHANGED execVars
    /\ UNCHANGED llmVars
    /\ UNCHANGED toolVars
    /\ UNCHANGED opVars

\* the entry of section_results for one implementation: the if-branch
\* (code found: judge and function test) or the else-branch
SectionResult(info, jdg, tns) ==
    IF info.code # <<>>
    THEN LET t == TestStudentImplementationWithContext(
                      info.function_name, info.cell_index,
                      tns[info.function_name])
         IN [section |-> info.section, function_name |-> info.function_name,
             llm_evaluation |->
                 EvaluateCellImplementation(info.function_name,
                                            jdg[info.function_name]),
             tensor_valid |-> t.valid,
             tensor_error |-> t.error,
             cell_index |-> info.cell_index]
    ELSE [section |-> info.section, function_name |-> info.function_name,
          llm_evaluation |-> NotImplementedVerdict,
          tensor_valid |-> FALSE,
          tensor_error |-> TRUE,
          cell_index |-> -1]

\* the function test of this section ends with an exception that neither
\* the test nor grade_notebook catches
TestEscapes(info, tns) ==
    /\ info.code # <<>>
    /\ TestStudentImplementationWithContext(
           info.function_name, info.cell_index,
           tns[info.function_name]).raised

\* one iteration of `for section_name, implementation_info in ...`
GradeSection ==
    /\ pc = "loop"
    /\ sec_i <= Len(implementations)
    /\ LET info == implementations[sec_i]
           entry == SectionResult(info, judge, tensor)
       IN /\ judge_calls' = IF info.code # <<>>
                            THEN Append(judge_calls, info.function_name)
                            ELSE judge_calls
          /\ IF TestEscapes(info, tensor)
             THEN /\ pc' = "raised"
                  /\ UNCHANGED <<section_results, overall_scores, sec_i>>
             ELSE /\ pc' = pc
                  /\ section_results' = Append(section_results, entry)
                  /\ overall_scores' =
                        IF info.code = <<>> THEN Append(overall_scores, 0)
                        ELSE IF "score" \in entry.llm_evaluation.keys
                        THEN Append(overall_scores, entry.llm_evaluation.score)
                        ELSE overall_scores
                  /\ sec_i' = sec_i + 1
    /\ UNCHANGED <<g_notebook, judge, tensor, implementations, report>>
    /\ UNCHANGED execVars
    /\ UNCHANGED llmVars
    /\ UNCHANGED toolVars
    /\ UNCHANGED opVars

\* after the loop: overall score, report, save, return; an exception
\* (here the KeyError of r['llm_evaluation']['comparison_result']) is caught
\* and an error dict without section_results is returned
GradeFinish ==
    /\ pc = "loop"
    /\ sec_i > Len(implementations)
    /\ report' =
         IF \E i \in 1..Len(section_results) :
                "comparison_result" \notin section_results[i].llm_evaluation.keys
         THEN [kind |-> "error", total |-> 0, terms |-> 0, grade |-> "",
               sections |-> <<>>]
         ELSE [kind |-> "report", total |-> Sum(overall_scores),
               terms |-> Len(overall_scores),
               grade |-> ScoreToLetterGrade(Sum(overall_scores),
                                            Len(overall_scores)),
               sections |-> section_results]
    /\ pc' = "done"
    /\ UNCHANGED <<g_notebook, judge, tensor, implementations, sec_i,
                   section_results, overall_scores, judge_calls>>
    /\ UNCHANGED execVars
    /\ UNCHANGED llmVars
    /\ UNCHANGED toolVars
    /\ UNCHANGED opVars

\* what the student's notebook does in the function tests: every function
\* passes, or compute_attention_weights goes wrong in one of the ways
TensorOutcomes ==
    { [f \in RequiredFunctions |->
          IF f = "compute_attention_weights" THEN sc ELSE GoodScenario] :
      sc \in { GoodScenario,
               Scenario("ok", FALSE, "invalid"),
               Scenario("ok", FALSE, "raise"),
               Scenario("ok", FALSE, "exit"),
               Scenario("ok", TRUE, "valid"),
               Scenario("raise", FALSE, "valid"),
               Scenario("exit", FALSE, "valid") } }

GradeIdle ==
    /\ g_notebook = [status |-> "missing", cells |-> <<>>]
    /\ judge = [f \in RequiredFunctions |-> JudgeRaises]
    /\ tensor = [f \in RequiredFunctions |-> GoodScenario]
    /\ pc = "idle"
    /\ implementations = <<>>
    /\ sec_i = 0
    /\ section_results = <<>>
    /\ overall_scores = <<>>
    /\ judge_calls = <<>>
    /\ report = NoReport

InitGrade ==
    /\ g_notebook \in GradeNotebooks
    /\ judge \in [RequiredFunctions -> JudgeOutcomes]
    /\ tensor \in TensorOutcomes
    /\ pc = "start"
    /\ implementations = <<>>
    /\ sec_i = 0
    /\ section_results = <<>>
    /\ overall_scores = <<>>
    /\ judge_calls = <<>>
    /\ report = NoReport
    /\ ExecIdle
    /\ ToolIdle
    /\ OpsIdle
    /\ config = [cache_enabled |-> FALSE, ttl_seconds |-> 0,
                 requests_per_minute |-> 0, has_fallback |-> FALSE,
                 retry_primary |-> 0, retry_fallback |-> 0]
    /\ LLMStart

NextGrade == GradeStart \/ GradeSection \/ GradeFinish

SpecGrade == InitGrade /\ [][NextGrade]_vars

(***************************************************************************)
(* RateLimiter on its own: wait_if_needed calls with time passing between  *)
(* them (the rest of compare_code, or the caller's own work).              *)
(***************************************************************************)
MaxWaits == 3      \* wait_if_needed calls made on one rate limiter
MaxIdle == 2       \* seconds that pass between two calls, at most

\* a wait_if_needed call: prune, sleep if the window is full, record
WaitIfNeededCall ==
    /\ Len(passed) < MaxWaits
    /\ LET gate == WaitIfNeeded(requests, now, config.requests_per_minute)
       IN /\ requests' = gate.requests
          /\ now' = now + gate.slept
          /\ passed' = Append(passed, Passage(now, gate))
    /\ UNCHANGED <<config, cache_files, ncompare, pre_cache, last>>
    /\ UNCHANGED execVars
    /\ UNCHANGED gradeVars
    /\ UNCHANGED toolVars
    /\ UNCHANGED opVars

(***************************************************************************)
(* explain_concept and generate_test_cases: the provider loop without      *)
(* parsing of a verdict; neither calls rate_limiter.wait_if_needed.        *)
(* [raised, nreq, slept]                                                   *)
(***************************************************************************)
PlainProviderLoop(cfg, runP, runF) ==
    LET p == GenerateResponse(cfg.retry_primary, runP)
        f == GenerateResponse(cfg.retry_fallback, runF)
    IN IF ~p.raised
       THEN [raised |-> FALSE, nreq |-> p.nreq, slept |-> p.slept]
       ELSE IF ~cfg.has_fallback
       THEN [raised |-> TRUE, nreq |-> p.nreq, slept |-> p.slept]
       ELSE [raised |-> f.raised, nreq |-> p.nreq + f.nreq,
             slept |-> p.slept + f.slept]

\* one explain_concept or generate_test_cases call is made per behaviour
PlainCall(name, runP, runF) ==
    /\ unit = NoUnit
    /\ LET loop == PlainProviderLoop(config, runP, runF)
       IN /\ unit' = [op |-> name, raised |-> loop.raised,
                      nreq |-> loop.nreq]
          /\ now' = now + loop.slept
    /\ UNCHANGED <<config, requests, cache_files, ncompare, pre_cache, last,
                   passed>>
    /\ UNCHANGED <<grade_dirs, runs, cc>>
    /\ UNCHANGED execVars
    /\ UNCHANGED gradeVars
    /\ UNCHANGED toolVars

ExplainConcept(runP, runF) == PlainCall("explain_concept", runP, runF)

GenerateTestCases(runP, runF) == PlainCall("generate_test_cases", runP, runF)

\* the moment the last call returned (0 before the first call)
LastReturn == IF passed = <<>> THEN 0 ELSE passed[Len(passed)].at

\* a second passes between two calls
Elapse ==
    /\ now - LastReturn < MaxIdle
    /\ now' = now + 1
    /\ UNCHANGED <<config, requests, cache_files, ncompare, pre_cache, last,
                   passed>>
    /\ UNCHANGED execVars
    /\ UNCHANGED gradeVars
    /\ UNCHANGED toolVars
    /\ UNCHANGED opVars

\* RateLimiter(requests_per_minute, burst_limit) with a positive limit
RateConfigs == { Config(FALSE, 1, FALSE, 1), Config(FALSE, 2, FALSE, 1) }

InitRate ==
    /\ config \in RateConfigs
    /\ LLMStart
    /\ ExecIdle
    /\ GradeIdle
    /\ ToolIdle
    /\ OpsIdle

NextRate ==
    \/ WaitIfNeededCall
    \/ Elapse
    \/ \E runP \in ProviderRuns(config.retry_primary) :
           \E runF \in ProviderRuns(config.retry_fallback) :
               ExplainConcept(runP, runF)
    \/ \E runP \in ProviderRuns(config.retry_primary) :
           \E runF \in ProviderRuns(config.retry_fallback) :
               GenerateTestCases(runP, runF)

SpecRate == InitRate /\ [][NextRate]_vars

InitLLM ==
    /\ config \in Configs
    /\ LLMStart
    /\ ExecIdle
    /\ GradeIdle
    /\ ToolIdle
    /\ OpsIdle

NextLLM ==
    \/ \E t \in Triples :
           \E runP \in ProviderRuns(config.retry_primary) :
               \E runF \in ProviderRuns(config.retry_fallback) :
                   CompareCode(t, runP, runF)
    \/ Tick

SpecLLM == InitLLM /\ [][NextLLM]_vars

InitExec ==
    /\ notebook_data \in Notebooks
    /\ cells = ExtractCodeCells(notebook_data)
    /\ execution_cache = [k \in {} |-> InitializeContext]
    /\ calls = <<>>
    /\ LLMIdle
    /\ GradeIdle
    /\ ToolIdle
    /\ OpsIdle

NextExec ==
    \/ \E t \in Targets : ExecuteCellsUntilMiss(t)
    \/ \E t \in Targets : ExecuteCellsUntilHit(t)

SpecExec == InitExec /\ [][NextExec]_vars

InitTools ==
    /\ loc_cells \in LocNotebooks
    /\ loc_calls = <<>>
    /\ val_last = NoValidation
    /\ ExecIdle
    /\ LLMIdle
    /\ GradeIdle
    /\ OpsIdle

NextTools ==
    \/ \E f \in SearchedNames : FindFunctionCellCall(f)
    \/ \E f \in ValidatedFunctions :
           \E c \in SUBSET ContextNames : ValidateCall(f, c)

SpecTools == InitTools /\ [][NextTools]_vars

InitUnit ==
    /\ unit = NoUnit
    /\ grade_dirs = {}
    /\ runs = <<>>
    /\ cc = NotStarted
    /\ ExecIdle
    /\ LLMIdle
    /\ GradeIdle
    /\ ToolIdle

NextUnit ==
    /\ unit = NoUnit
    /\ \/ \E doc \in Documents : Construct(doc)
       \/ \E response \in TextResponses : ParseTextCall(response)
       \/ \E n \in 0..MaxRetry :
              \E run \in ProviderRuns(n) : GenerateResponseCall(n, run)
       \/ \E t1 \in CodeTriples : \E t2 \in CodeTriples : CacheKeyCall(t1, t2)
       \/ \E weights \in Tensors : WeightsFunctionTestCall(weights)

SpecUnit == InitUnit /\ [][NextUnit]_vars

InitAttempts ==
    /\ unit = NoUnit
    /\ grade_dirs \in SUBSET InitialEntries
    /\ runs = <<>>
    /\ cc = NotStarted
    /\ ExecIdle
    /\ LLMIdle
    /\ GradeIdle
    /\ ToolIdle

InitTerm ==
    /\ config \in TermConfigs
    /\ LLMStart
    /\ unit = NoUnit
    /\ grade_dirs = {}
    /\ runs = <<>>
    /\ cc = NotStarted
    /\ ExecIdle
    /\ GradeIdle
    /\ ToolIdle

NextTerm ==
    \/ \E t \in Triples : CcBegin(t)
    \/ CcStep
    \/ CcTick

\* A call in progress keeps running: the thread is not cancelled, every
\* provider request ends and every sleep ends.
SpecTerm == InitTerm /\ [][NextTerm]_vars /\ WF_vars(CcStep)

NextAttempts == RunNotebookEvaluation

SpecAttempts == InitAttempts /\ [][NextAttempts]_vars

(***************************************************************************)
(* Helpers for the properties of the replay                                *)
(***************************************************************************)
LastOrdinal == Len(cells) - 1

\* the statement kinds that rebind, delete or mutate in place the name n
Touches(src, n, kinds) ==
    \E j \in 1..Len(src.ops) : src.ops[j].name = n /\ src.ops[j].op \in kinds

\* ordinals of the code cells the replay does not skip, in ascending order
Ordinals == [j \in 1..Len(cells) |-> j - 1]
NotSkipped(o) == ~SkippedCell(cells[o + 1].source)
AllNonSkipped == SelectSeq(Ordinals, NotSkipped)

IsPrefix(s, t) == Len(s) <= Len(t) /\ \A j \in 1..Len(s) : s[j] = t[j]

Misses == {j \in 1..Len(calls) : ~calls[j].hit}
Returned == {j \in 1..Len(calls) : ~calls[j].raised}

\* some (executed) code cell with ordinal in (t1, t2] has a statement of one
\* of the kinds on the name n
TouchedBetween(t1, t2, n, kinds, onlyExecuted) ==
    \E j \in 1..Len(cells) :
        /\ j - 1 > t1 /\ j - 1 <= t2
        /\ onlyExecuted => NotSkipped(j - 1)
        /\ Touches(cells[j].source, n, kinds)

(***************************************************************************)
(* C8 (as claimed): execute_cells_until never terminates abnormally        *)
(* because a cell failed: every cell failure is recorded as a warning and  *)
(* the replay goes on to the remaining cells with ordinal <= target.       *)
(* The code catches `Exception` only, so a cell raising SystemExit         *)
(* (sys.exit()) ends the call with that exception.                         *)
(***************************************************************************)
C8_NeverAbortsOnCellFailure ==
    \A c \in Misses :
        /\ ~calls[c].raised
        /\ \A j \in 1..Len(calls[c].steps) :
               calls[c].steps[j].error # "none" =>
                   \E w \in 1..Len(calls[c].warnings) :
                       calls[c].warnings[w] = calls[c].steps[j].cell

(***************************************************************************)
(* C9 (as claimed): when a cell fails, the working namespace after the     *)
(* cell equals the working namespace before it.  The copy the cell runs    *)
(* against is shallow, so an object the cell mutated in place before it    *)
(* raised stays mutated in the working namespace.                          *)
(***************************************************************************)
C9_FailedCellLeavesNamespace ==
    \A c \in Misses :
        \A j \in 1..Len(calls[c].steps) :
            calls[c].steps[j].error = "Exception" =>
                calls[c].steps[j].after = calls[c].steps[j].before

(***************************************************************************)
(* C1 (as claimed): if the cell at ordinal k fails, execute_cells_until    *)
(* (k+1) returns a namespace that holds every binding established by the   *)
(* cells before k (unless cell k+1 itself rebinds or deletes the name) and *)
(* every binding cell k+1 successfully produces.                           *)
(***************************************************************************)
C1_BindingsSurviveFailedCell ==
    \A c \in Misses :
        \A j \in 1..Len(calls[c].steps) :
            LET sk == calls[c].steps[j]
                k  == sk.cell
            IN (/\ sk.error # "none"
                /\ calls[c].target = k + 1 /\ k + 1 <= LastOrdinal
                /\ \A s \in 1..Len(calls[c].steps) :
                       calls[c].steps[s].cell = k + 1 =>
                           calls[c].steps[s].error # "BaseException") =>
                 /\ ~calls[c].raised
                 /\ \A n \in Names :
                      (sk.before[n] # Missing
                         /\ ~TouchedBetween(k, k + 1, n, {"bind", "del", "mutate"}, TRUE))
                        => calls[c].context[n] = sk.before[n]
                 /\ \A s \in 1..Len(calls[c].steps) :
                      (calls[c].steps[s].cell = k + 1
                         /\ calls[c].steps[s].error = "none") =>
                        calls[c].context = calls[c].steps[s].after

(***************************************************************************)
(* C2 (as claimed): for targets t1 <= t2, every name bound in the          *)
(* namespace returned for t1 is bound in the namespace returned for t2,    *)
(* with the same value unless a cell with ordinal in (t1, t2] explicitly   *)
(* reassigns it.                                                           *)
(***************************************************************************)
C2_LaterReplayKeepsBindings ==
    \A a \in Misses \cap Returned : \A b \in Misses \cap Returned :
        calls[a].target <= calls[b].target =>
            \A n \in Names :
                calls[a].context[n] # Missing =>
                    /\ calls[b].context[n] # Missing
                    /\ \/ calls[b].context[n] = calls[a].context[n]
                       \/ TouchedBetween(calls[a].target, calls[b].target,
                                         n, {"bind"}, FALSE)

(***************************************************************************)
(* C2 (amended): for targets t1 <= t2, every name bound in the namespace   *)
(* returned for t1 has the same binding in the namespace returned for t2   *)
(* unless an executed cell with ordinal in (t1, t2] reassigns it, deletes  *)
(* it or mutates its value in place.                                       *)
(***************************************************************************)
C2_Amended ==
    \A a \in Misses \cap Returned : \A b \in Misses \cap Returned :
        calls[a].target <= calls[b].target =>
            \A n \in Names :
                calls[a].context[n] # Missing =>
                    \/ calls[b].context[n] = calls[a].context[n]
                    \/ TouchedBetween(calls[a].target, calls[b].target,
                                      n, {"bind", "del", "mutate"}, TRUE)

\* two replays returned, the later one ran a failing cell more than the
\* earlier one, and a student binding of the earlier one is kept
C2_Witness ==
    \E a \in Misses \cap Returned : \E b \in Misses \cap Returned :
        /\ calls[a].target < calls[b].target
        /\ Len(calls[b].warnings) > Len(calls[a].warnings)
        /\ calls[a].context["x"] # Missing
        /\ calls[b].context["x"] = calls[a].context["x"]

(***************************************************************************)
(* C10 (as claimed): for every malformed target ordinal, negative or       *)
(* greater than the ordinal of the last code cell, execute_cells_until     *)
(* executes all non-skipped code cells of the notebook.                    *)
(***************************************************************************)
C10_MalformedTargetRunsAll ==
    \A c \in Misses \cap Returned :
        (calls[c].target < 0 \/ calls[c].target > LastOrdinal) =>
            calls[c].executed = AllNonSkipped

(***************************************************************************)
(* C10 (amended): a target greater than the ordinal of the last code cell  *)
(* behaves as the last ordinal: the loop is not cut short by the target,   *)
(* it executes the non-skipped code cells in order (all of them when the   *)
(* call returns) and the call ends as the call for the last ordinal does;  *)
(* a negative target executes no cell and returns the initial namespace.   *)
(***************************************************************************)
C10_Amended ==
    \A c \in Misses :
        /\ calls[c].target < 0 =>
              /\ calls[c].executed = <<>>
              /\ ~calls[c].raised
              /\ calls[c].context = InitializeContext
        /\ calls[c].target > LastOrdinal =>
              /\ IsPrefix(calls[c].executed, AllNonSkipped)
              /\ ~calls[c].raised => calls[c].executed = AllNonSkipped
              /\ \A d \in Misses :
                     calls[d].target = LastOrdinal =>
                         /\ calls[d].executed = calls[c].executed
                         /\ calls[d].context = calls[c].context
                         /\ calls[d].raised = calls[c].raised

\* one call with a negative target and one with a target past the last
\* cell were made on a notebook that has cells to execute
C10_Witness ==
    /\ Len(AllNonSkipped) >= 2
    /\ \E c \in Misses : calls[c].target < 0 /\ calls[c].executed = <<>>
    /\ \E c \in Misses : calls[c].target > LastOrdinal
                           /\ calls[c].executed = AllNonSkipped

(***************************************************************************)
(* Helpers for the properties of compare_code                              *)
(***************************************************************************)
Called == ncompare > 0
ProviderRequests(c) ==
    IF Len(c.attempts) = 0 THEN 0
    ELSE IF Len(c.attempts) = 1 THEN c.attempts[1].nreq
    ELSE c.attempts[1].nreq + c.attempts[2].nreq

\* the verdict is the parse of the response r (made at some moment)
IsParseOf(v, r) ==
    \E t \in 0..now : ParseComparisonResponse(r, t) = [raised |-> FALSE, result |-> v]

(***************************************************************************)
(* C3 (as claimed): with the cache enabled, once a verdict is cached for   *)
(* a triple, a later compare_code call with the same triple made before    *)
(* the TTL expires returns exactly that verdict and makes no provider      *)
(* request, whatever verdict it is.                                        *)
(* The code tests the cached verdict for truth (`if cached_result:`), so   *)
(* the cached verdict {} is treated as a miss.                             *)
(***************************************************************************)
C3_CachedVerdictReturned ==
    (/\ Called /\ config.cache_enabled
     /\ pre_cache[last.key] # NoFile
     /\ last.lookup_time - pre_cache[last.key].timestamp <= config.ttl_seconds)
    => /\ ~last.raised
       /\ last.result = pre_cache[last.key].data
       /\ ProviderRequests(last) = 0

(***************************************************************************)
(* C4: in a compare_code call that misses the cache the primary provider   *)
(* is tried first, the fallback provider is tried only after the primary   *)
(* attempt failed, and the verdict returned is the parse of the response   *)
(* of the first provider that succeeded; the call raises only when every   *)
(* provider tried has failed.                                              *)
(***************************************************************************)
C4_PrimaryThenFallback ==
    (Called /\ ~last.hit) =>
        /\ Len(last.attempts) >= 1
        /\ last.attempts[1].provider = "primary"
        /\ \A i \in 1..Len(last.attempts) :
               last.attempts[i].provider = "fallback" =>
                   /\ i = 2
                   /\ config.has_fallback
                   /\ last.attempts[1].failed
        /\ ~last.raised =>
               \E i \in 1..Len(last.attempts) :
                   /\ ~last.attempts[i].failed
                   /\ i = Len(last.attempts)
                   /\ \A j \in 1..(i - 1) : last.attempts[j].failed
                   /\ IsParseOf(last.result, last.attempts[i].response)
        /\ last.raised =>
               \A i \in 1..Len(last.attempts) : last.attempts[i].failed

\* the primary failed on every retry and the fallback's response was parsed
C4_Witness ==
    /\ Called /\ ~last.hit /\ ~last.raised
    /\ Len(last.attempts) = 2
    /\ last.attempts[1].failed
    /\ last.attempts[1].nreq = config.retry_primary
    /\ last.attempts[2].provider = "fallback"
    /\ last.result.comparison_result = "correct"
    /\ IsParseOf(last.result, last.attempts[2].response)

(***************************************************************************)
(* Helpers for the properties of grade_notebook                            *)
(***************************************************************************)
Judged(fn) == \E i \in 1..Len(judge_calls) : judge_calls[i] = fn

RECURSIVE ScoresOf(_)
ScoresOf(entries) ==
    IF entries = <<>> THEN <<>>
    ELSE IF "score" \in Head(entries).llm_evaluation.keys
         THEN <<Head(entries).llm_evaluation.score>> \o ScoresOf(Tail(entries))
         ELSE ScoresOf(Tail(entries))

\* the notebook defines the function: some cell has the header `def fn(`
Defines(nb, fn) == \E i \in 1..Len(nb.cells) : fn \in nb.cells[i].exact

\* the notebook nb with a definition of fn added to its cell i
WithDefinition(nb, fn, i) ==
    [nb EXCEPT !.cells[i].exact = @ \cup {fn}, !.cells[i].loose = @ \ {fn}]

(***************************************************************************)
(* C5 (as claimed): for every notebook path (existing, missing or          *)
(* malformed) and every outcome of the judge, the report grade_notebook    *)
(* returns has a section entry for each of the four required functions.    *)
(* For a missing notebook _extract_student_code returns {} and the report  *)
(* has no section at all.                                                  *)
(***************************************************************************)
C5_ReportCoversAllFunctions ==
    pc = "done" =>
        \A fn \in RequiredFunctions :
            \E i \in 1..Len(report.sections) :
                report.sections[i].function_name = fn

(***************************************************************************)
(* C6 (as claimed): when the notebook holds no definition of a required    *)
(* function, the report's section for it is not_implemented with score 0,  *)
(* no judge call is made for it, and the other sections are what they      *)
(* would be with the function implemented.                                 *)
(* _extract_student_code looks for the text 'def <name>', which also       *)
(* occurs in `def <name>_v2(`: such a cell is sent to the judge.           *)
(***************************************************************************)
C6_MissingFunctionNotImplemented ==
    (pc = "done" /\ g_notebook.status = "ok" /\ report.kind = "report") =>
        \A fn \in RequiredFunctions :
            ~Defines(g_notebook, fn) =>
                /\ ~Judged(fn)
                /\ \E i \in 1..Len(report.sections) :
                       /\ report.sections[i].function_name = fn
                       /\ report.sections[i].llm_evaluation.comparison_result
                              = "not_implemented"
                       /\ report.sections[i].llm_evaluation.score = 0
                /\ \A c \in 1..Len(g_notebook.cells) :
                       LET other == ExtractStudentCode(
                                        WithDefinition(g_notebook, fn, c),
                                        CellMapping)
                       IN \A i \in 1..Len(report.sections) :
                              report.sections[i].function_name # fn =>
                                  report.sections[i] =
                                      SectionResult(other[i], judge, tensor)

(***************************************************************************)
(* C7: when every provider fails for a section's comparison request, the   *)
(* section is recorded with the error verdict and score 0, that 0 is a     *)
(* term of the overall score, and the loop goes on: every section of the   *)
(* mapping has been evaluated when grade_notebook returns.                 *)
(***************************************************************************)
C7_ProviderFailureIsErrorSection ==
    /\ \A i \in 1..Len(section_results) :
           LET e == section_results[i]
           IN (Judged(e.function_name) /\ judge[e.function_name].raised) =>
                  /\ e.llm_evaluation.comparison_result = "error"
                  /\ "score" \in e.llm_evaluation.keys
                  /\ e.llm_evaluation.score = 0
    /\ overall_scores = ScoresOf(section_results)
    /\ pc = "done" =>
           /\ Len(section_results) = Len(implementations)
           /\ report.kind = "report" =>
                  /\ report.sections = section_results
                  /\ report.total = Sum(ScoresOf(section_results))
                  /\ report.terms = Len(ScoresOf(section_results))

\* the first section's providers all failed, the sections after it were
\* judged, and the report counts the failed section as 0
C7_Witness ==
    /\ pc = "done" /\ report.kind = "report"
    /\ Len(report.sections) = 4
    /\ judge["create_qkv_projections"].raised
    /\ Judged("create_qkv_projections")
    /\ report.sections[1].llm_evaluation.comparison_result = "error"
    /\ \A i \in 2..4 : report.sections[i].llm_evaluation.score = 100
    /\ report.total = 300 /\ report.terms = 4

(***************************************************************************)
(* C11 (as claimed): a repeated execute_cells_until(t), for a target t     *)
(* that an earlier call on the same executor returned a namespace for,     *)
(* returns successfully with the bindings of that first call and executes  *)
(* no cell.                                                                *)
(* The cached namespace keeps the module objects (torch, nn, F, np, math)  *)
(* by reference, and the hit branch deep-copies the whole cached dict:     *)
(* copy.deepcopy raises TypeError on a module object.                      *)
(***************************************************************************)
C11_RepeatedTargetReturnsCached ==
    \A i \in 1..Len(calls) : \A j \in 1..Len(calls) :
        (i < j /\ calls[i].target = calls[j].target /\ ~calls[i].raised) =>
            /\ ~calls[j].raised
            /\ calls[j].executed = <<>>
            /\ calls[j].context = calls[i].context

(***************************************************************************)
(* Helpers for the properties of find_function_cell                        *)
(***************************************************************************)
\* the line is a definition header of exactly the function fn
IsHeaderOf(line, fn) ==
    line.lead = "def" /\ line.name = fn /\ line.after \in {"(", " ("}

\* ordinals of the code cells whose source has a header line of fn
DefiningOrdinals(fn) ==
    {o \in 0..(Len(loc_cells) - 1) :
        \E k \in 1..Len(loc_cells[o + 1]) : IsHeaderOf(loc_cells[o + 1][k], fn)}

(***************************************************************************)
(* C12: find_function_cell(name) returns the ordinal of the first code     *)
(* cell whose source has a line that starts, after optional whitespace,    *)
(* with the header `def name(` of exactly that name; it returns -1 when    *)
(* no cell has one; two calls for the same name return the same ordinal.   *)
(***************************************************************************)
C12_FindFunctionCellFirstMatch ==
    /\ \A i \in 1..Len(loc_calls) :
           LET c == loc_calls[i]
               D == DefiningOrdinals(c.function_name)
           IN /\ D = {} => c.result = -1
              /\ D # {} => (c.result \in D /\ \A o \in D : c.result <= o)
    /\ \A i \in 1..Len(loc_calls) : \A j \in 1..Len(loc_calls) :
           loc_calls[i].function_name = loc_calls[j].function_name =>
               loc_calls[i].result = loc_calls[j].result

\* two cells define aggregate_values, the first one after a text that is
\* no header of it; both calls returned the first cell
C12_Witness ==
    /\ Len(loc_calls) = 2
    /\ Cardinality(DefiningOrdinals("aggregate_values")) = 2
    /\ \A i \in 1..2 : /\ loc_calls[i].function_name = "aggregate_values"
                       /\ loc_calls[i].result = 0
    /\ ~IsHeaderOf(loc_cells[1][1], "aggregate_values")

(***************************************************************************)
(* Helpers for the properties of validate_context_for_function             *)
(***************************************************************************)
\* the order of the names as Python sorts strings (by code point)
NameRank(n) ==
    CASE n = "F" -> 1 [] n = "K" -> 2 [] n = "Q" -> 3 [] n = "V" -> 4
      [] n = "attention_scores" -> 5 [] n = "attention_weights" -> 6
      [] n = "embeddings" -> 7 [] n = "math" -> 8 [] n = "nn" -> 9
      [] n = "torch" -> 10

Range(q) == {q[k] : k \in 1..Len(q)}

\* the names the table requires for the validated function and the
\* namespace lacks
AbsentRequired ==
    Range(Requirements(val_last.function_name)) \ val_last.given

Validated == val_last # NoValidation

\* position of the name n in the sequence q
PositionIn(q, n) == CHOOSE k \in 1..Len(q) : q[k] = n

(***************************************************************************)
(* C14 (as claimed): validate_context_for_function returns ok = true       *)
(* exactly when no required name is absent, returns as `missing` the       *)
(* sorted list of exactly the absent required names, and leaves the        *)
(* namespace unchanged.                                                    *)
(* The list is built by a comprehension over the table entry and is never  *)
(* sorted: for create_qkv_projections it is ['torch', 'nn'].               *)
(***************************************************************************)
C14_MissingIsSortedAbsent ==
    Validated =>
        /\ val_last.ok <=> AbsentRequired = {}
        /\ Range(val_last.missing) = AbsentRequired
        /\ \A i \in 1..Len(val_last.missing) :
               \A j \in 1..Len(val_last.missing) :
                   i < j => NameRank(val_last.missing[i])
                                < NameRank(val_last.missing[j])
        /\ val_last.context = val_last.given

(***************************************************************************)
(* C14 (amended): ok = true exactly when no required name is absent;       *)
(* `missing` lists exactly the absent required names, each once, in the    *)
(* order of the table entry; the namespace is left unchanged.              *)
(***************************************************************************)
C14_Amended ==
    Validated =>
        LET required == Requirements(val_last.function_name)
        IN /\ val_last.ok <=> AbsentRequired = {}
           /\ Range(val_last.missing) = AbsentRequired
           /\ \A i \in 1..Len(val_last.missing) :
                  \A j \in 1..Len(val_last.missing) :
                      i < j => PositionIn(required, val_last.missing[i])
                                   < PositionIn(required, val_last.missing[j])
           /\ val_last.context = val_last.given

\* torch and nn are absent and reported in the table's order
C14_Witness ==
    /\ val_last.function_name = "create_qkv_projections"
    /\ val_last.given = {"embeddings"}
    /\ val_last.missing = <<"torch", "nn">>
    /\ ~val_last.ok

(***************************************************************************)
(* C13 (as claimed): the cell ordinal grade_notebook uses to replay the    *)
(* context and test a function is the ordinal of the first code cell that  *)
(* defines it (the one find_function_cell returns), and a cell that only   *)
(* defines a differently named function is never selected.                 *)
(* _extract_student_code overwrites function_cell_index at every cell      *)
(* whose source contains the text 'def <name>': the last such cell is      *)
(* used, and the text of a longer name is enough.                          *)
(***************************************************************************)
C13_FirstDefinitionIsUsed ==
    \A i \in 1..Len(section_results) :
        LET e == section_results[i]
            D == {o \in 0..(Len(g_notebook.cells) - 1) :
                     e.function_name \in g_notebook.cells[o + 1].exact}
        IN e.cell_index # -1 =>
               /\ e.cell_index \in D
               /\ \A o \in D : e.cell_index <= o

(***************************************************************************)
(* C15 (as claimed): the context-aware function test never raises: when a  *)
(* required context variable is absent, or the replay or the student       *)
(* function throws any exception, the section's test result has            *)
(* valid = false with the error, and grade_notebook goes on to the         *)
(* remaining functions.                                                    *)
(* The test, _run_function_tests_with_context and grade_notebook catch     *)
(* `Exception` only: a SystemExit raised by the student's cell or function *)
(* leaves all three and ends the run.                                      *)
(***************************************************************************)
C15_FunctionTestNeverRaises ==
    /\ pc # "raised"
    /\ \A i \in 1..Len(section_results) :
           LET e == section_results[i]
               sc == tensor[e.function_name]
           IN (e.cell_index # -1 /\ (sc.absent \/ sc.replay # "ok"
                                       \/ sc.invoke \in {"raise", "exit"})) =>
                  (~e.tensor_valid /\ e.tensor_error)
    /\ pc = "done" => Len(section_results) = Len(implementations)

(***************************************************************************)
(* C16 (as claimed): at the moment a call gets past wait_if_needed, fewer  *)
(* than requests_per_minute earlier calls got past it within the           *)
(* preceding 60 seconds.                                                   *)
(* The gate sleeps once, does not look at the window again, and records    *)
(* the time the call was entered instead of the time it got past: the      *)
(* call that follows a call that slept finds the window empty.             *)
(***************************************************************************)
C16_AtMostRpmPerMinute ==
    \A j \in 1..Len(passed) :
        Cardinality({i \in 1..(j - 1) : passed[j].at - passed[i].at < Minute})
            < config.requests_per_minute

(***************************************************************************)
(* C17: immediately after the pruning step of every wait_if_needed call    *)
(* the list of request timestamps holds at most requests_per_minute        *)
(* entries.                                                                *)
(***************************************************************************)
C17_PrunedWindowWithinLimit ==
    \A j \in 1..Len(passed) :
        Len(passed[j].kept) <= config.requests_per_minute

\* a call found the window full after pruning and slept; the call after it
\* pruned the list again
C17_Witness ==
    /\ Len(passed) = 3
    /\ Len(passed[2].kept) = config.requests_per_minute
    /\ passed[2].at > passed[2].entered
    /\ Len(passed[3].kept) >= 1

(***************************************************************************)
(* Helpers for the properties of the verdicts and of the cache             *)
(***************************************************************************)
ComparisonResults ==
    {"correct", "partially_correct", "incorrect", "unknown", "error"}

WellFormed(v) ==
    /\ VerdictKeys \subseteq v.keys
    /\ v.comparison_result \in ComparisonResults
    /\ v.score \in 0..100

\* the retries configured for the provider of an attempt
RetriesOf(provider) ==
    IF provider = "primary" THEN config.retry_primary
    ELSE config.retry_fallback

\* the cache file of the last call's key was expired when it was looked up
ExpiredAtLookup ==
    /\ pre_cache[last.key] # NoFile
    /\ last.lookup_time - pre_cache[last.key].timestamp > config.ttl_seconds

(***************************************************************************)
(* C18 (as claimed): for every non-empty response text a provider          *)
(* returns, the verdict compare_code returns is well formed:               *)
(* comparison_result is one of the five values, score is an integer in     *)
(* 0..100, and the three feedback keys are present.                        *)
(* A response that parses as a JSON object is returned as it is, whatever  *)
(* keys and values it holds.                                               *)
(***************************************************************************)
C18_VerdictWellFormed ==
    (Called /\ ~last.hit /\ ~last.raised) => WellFormed(last.result)

C20_CachedUntilExpiry ==
    (Called /\ config.cache_enabled /\ pre_cache[last.key] # NoFile) =>
        IF ExpiredAtLookup
        THEN /\ ~last.hit
             /\ Len(last.attempts) >= 1
             /\ last.raised => cache_files[last.key] = NoFile
             /\ ~last.raised =>
                    /\ cache_files[last.key].data = last.result
                    /\ cache_files[last.key].timestamp >= last.lookup_time
                    /\ cache_files[last.key].timestamp
                           > pre_cache[last.key].timestamp
        ELSE /\ last.hit
             /\ last.attempts = <<>>
             /\ last.result = pre_cache[last.key].data
             /\ cache_files[last.key] = pre_cache[last.key]

(***************************************************************************)
(* C21.  Constructing a NotebookExecutor on a document that cannot be      *)
(* parsed - malformed JSON, or JSON without a cells key - fails with the   *)
(* load error (ValueError) that carries the underlying cause; no executor  *)
(* with an empty cell list is produced for such a document.                *)
(***************************************************************************)
Unparsable(doc) ==
    doc.readable /\ (~doc.well_formed \/ "cells" \notin doc.keys)

C21_UnparsableDocumentFailsToLoad ==
    (unit.op = "construct" /\ Unparsable(unit.doc))
        => /\ unit.out.raised
           /\ unit.out.error = "ValueError"
           /\ unit.out.cause # ""

(***************************************************************************)
(* C24.  The text parser classifies by keyword: a response with "correct"  *)
(* gives correct/85, with "incorrect" incorrect/25, with "partially"       *)
(* partially_correct/60, and a response with none of these keywords gives  *)
(* unknown/50.  A response whose only keyword is "incorrect" is never      *)
(* classified as correct.                                                  *)
(***************************************************************************)
\* the keywords of the classification that occur in the text as words
KeywordsOf(response) ==
    { w \in {"correct", "incorrect", "partially"} :
          \E i \in 1..Len(response.lines) : w \in response.lines[i] }

Classified(out, cr, sc) == out.comparison_result = cr /\ out.score = sc

C24_KeywordClassification ==
    unit.op = "parse_text" =>
        LET ks == KeywordsOf(unit.response)
        IN /\ ks = {"incorrect"} => unit.out.comparison_result # "correct"
           /\ ks = {"incorrect"} => Classified(unit.out, "incorrect", 25)
           /\ ks = {"correct"} => Classified(unit.out, "correct", 85)
           /\ ks = {"partially"} =>
                  Classified(unit.out, "partially_correct", 60)
           /\ ks = {} => Classified(unit.out, "unknown", 50)

(***************************************************************************)
(* C25.  Within one generate_response call a provider makes at most        *)
(* retry_attempts requests: it stops at the first successful request,      *)
(* waits 2^i seconds after the i-th failed request (i from 0) before the   *)
(* next one, and after the retry_attempts-th consecutive failure raises    *)
(* without a further wait; a provider that fails on every attempt has been *)
(* called exactly retry_attempts times.                                    *)
(***************************************************************************)
\* n failed requests, the i-th (from 0) followed by a wait of 2^i seconds
RECURSIVE FailedRounds(_)
FailedRounds(n) ==
    IF n = 0 THEN <<>>
    ELSE FailedRounds(n - 1) \o <<Request(FALSE), Sleep(Pow(2, n - 1))>>

C25_RetriesWithBackoff ==
    unit.op = "generate_response" =>
        LET n == unit.retry_attempts
            k == unit.run.ok_at          \* first successful request, 0: none
            out == unit.out
        IN /\ out.nreq <= n
           /\ k # 0 =>
                 /\ ~out.raised
                 /\ out.response = unit.run.response
                 /\ out.log = FailedRounds(k - 1) \o <<Request(TRUE)>>
           /\ k = 0 => out.nreq = n
           /\ (k = 0 /\ n >= 1) =>
                 /\ out.raised
                 /\ out.log = FailedRounds(n - 1) \o <<Request(FALSE)>>

C25_Witness ==
    /\ unit.op = "generate_response"
    /\ unit.retry_attempts = 3
    /\ unit.run.ok_at = 0
    /\ unit.out.raised
    /\ unit.out.nreq = 3
    /\ unit.out.slept = 3

(***************************************************************************)
(* C29.  Two different triples (student_code, reference_code,              *)
(* function_name) never share a response-cache entry: the content hashed   *)
(* into the cache key differs for any two different triples.               *)
(***************************************************************************)
C29_DifferentTriplesDifferentKeys ==
    (unit.op = "cache_key" /\ unit.first # unit.second)
        => unit.key_first # unit.key_second

(***************************************************************************)
(* C22.  Over any sequence of run_notebook_evaluation runs, the attempt    *)
(* number each run uses is strictly greater than every attempt number that *)
(* already has a directory under grade/; attempt numbers never decrease    *)
(* from run to run, and no run writes its report into the directory of an  *)
(* earlier run.                                                            *)
(***************************************************************************)
C22_AttemptNumbersIncrease ==
    /\ \A i \in 1..Len(runs) :
           \A e \in runs[i].before :
               (e.is_dir /\ e.starts /\ e.numeric) => runs[i].attempt > e.num
    /\ \A i \in 1..Len(runs) : \A j \in 1..Len(runs) :
           i < j => /\ runs[i].attempt <= runs[j].attempt
                    /\ runs[i].created => runs[i].attempt < runs[j].attempt
                    /\ AttemptDir(runs[j].attempt) \notin runs[j].before

\* a second run after a first one that found attempt directories
C22_Witness ==
    /\ Len(runs) = 2
    /\ AttemptDir(3) \in runs[1].before
    /\ runs[1].created /\ runs[1].attempt = 4
    /\ runs[2].created /\ runs[2].attempt = 5

(***************************************************************************)
(* C23.  On a cache miss with a target t that is an existing ordinal,      *)
(* execute_cells_until(t) executes exactly the code cells with ordinal     *)
(* <= t that are not skipped, each once, in ascending order; it executes   *)
(* no cell with ordinal > t, and a skipped cell leaves the namespace       *)
(* unchanged (each executed cell starts from the namespace the previous    *)
(* executed cell left).                                                    *)
(***************************************************************************)
NonSkippedUpTo(t) == SelectSeq(AllNonSkipped, LAMBDA o : o <= t)

ChainedSteps(steps) ==
    \A k \in 1..Len(steps) :
        steps[k].before = IF k = 1 THEN InitializeContext
                          ELSE steps[k - 1].after

C23_ReplayExecutesCellsUpToTarget ==
    \A c \in Misses :
        (calls[c].target >= 0 /\ calls[c].target <= LastOrdinal) =>
            /\ calls[c].executed = NonSkippedUpTo(calls[c].target)
            /\ ChainedSteps(calls[c].steps)

(***************************************************************************)
(* C26.  Every LLMEvaluator operation that can send a provider request     *)
(* (compare_code, explain_concept, generate_test_cases) passes through     *)
(* wait_if_needed and records a timestamp before any provider request is   *)
(* made: a step in which provider requests are sent also adds a passage    *)
(* of the rate limiter and a timestamp to its list.                        *)
(***************************************************************************)
SendsRequests ==
    \/ unit' # unit /\ unit'.op \in {"explain_concept", "generate_test_cases"}
                    /\ unit'.nreq > 0
    \/ ncompare' # ncompare /\ ProviderRequests(last') > 0

C26_RequestsPassTheRateLimiter ==
    [][SendsRequests => /\ Len(passed') = Len(passed) + 1
                        /\ requests' # requests]_vars

(***************************************************************************)
(* C27.  The function test of the weight step reports valid = true only    *)
(* if the student output has shape [1,6,6], every row sums to 1 within     *)
(* tolerance, and no entry is negative; an output with a negative entry    *)
(* is reported valid = false.                                              *)
(***************************************************************************)
HasNegativeEntry(weights) ==
    \E i \in DOMAIN weights.rows :
        \E j \in DOMAIN weights.rows[i] : weights.rows[i][j] < 0

C27_WeightsValidOnlyIfNonNegative ==
    (unit.op = "weights_test" /\ unit.out.valid) =>
        /\ unit.weights.shape = <<1, 6, 6>>
        /\ \A i \in DOMAIN unit.weights.rows :
               unit.weights.rows[i][1] + unit.weights.rows[i][2] = One
        /\ ~HasNegativeEntry(unit.weights)

(***************************************************************************)
(* C30.  In every report grade_notebook produces, overall_score is the     *)
(* mean of the LLM verdict scores with exactly one term per section of     *)
(* section_results (error and not_implemented sections contribute 0, no    *)
(* section is left out), and the letter grade is A/B/C/D/F for             *)
(* overall_score >= 90 / 80 / 70 / 60 / below; four sections each scored   *)
(* 100 give overall_score 100 and grade A.                                 *)
(***************************************************************************)
\* the score of a section's verdict, 0 when the verdict carries none
SectionScore(sec) ==
    IF "score" \in sec.llm_evaluation.keys THEN sec.llm_evaluation.score ELSE 0

SectionScores(secs) == [i \in 1..Len(secs) |-> SectionScore(secs[i])]

\* the letter for the mean total / n, without division
LetterFor(total, n) ==
    CASE total >= 90 * n -> "A"
      [] total < 90 * n /\ total >= 80 * n -> "B"
      [] total < 80 * n /\ total >= 70 * n -> "C"
      [] total < 70 * n /\ total >= 60 * n -> "D"
      [] OTHER -> "F"

C30_OverallScoreIsMeanOverSections ==
    report.kind = "report" =>
        /\ report.terms = Len(report.sections)
        /\ report.total = Sum(SectionScores(report.sections))
        /\ report.terms > 0 => report.grade = LetterFor(report.total, report.terms)
        /\ (/\ Len(report.sections) = 4
            /\ \A i \in 1..4 : SectionScore(report.sections[i]) = 100)
               => /\ report.total = 100 * report.terms
                  /\ report.grade = "A"

(***************************************************************************)
(* C28.  Assuming every provider request terminates and retry_attempts is  *)
(* finite, every compare_code call eventually terminates, returning a      *)
(* verdict or raising the all-providers-failed error, after at most        *)
(* retry_attempts(primary) + retry_attempts(fallback) provider requests    *)
(* and at most one rate-limiter sleep.                                     *)
(***************************************************************************)
InProgress == cc.pc \notin {"idle", "done"}

C28_CompareCodeTerminates ==
    /\ [](/\ cc.nreq <= config.retry_primary + config.retry_fallback
          /\ cc.gate_sleeps <= 1
          /\ cc.pc = "done" => cc.outcome \in {"verdict", "raised"})
    /\ (InProgress ~> cc.pc = "done")

\* a call that slept at the gate, used up the retries of both providers
\* and raised
C28_Witness ==
    /\ cc.pc = "done"
    /\ cc.outcome = "raised"
    /\ cc.gate_sleeps = 1
    /\ config.has_fallback
    /\ cc.nreq = config.retry_primary + config.retry_fallback
    /\ cc.nreq >= 3

====
